---- MODULE Spec2Model ----
(***************************************************************************)
(* State-machine model of the hailo-camera capture server: the shared      *)
(* capture pipeline (SharedPipeline), the camera lock of server.js, the    *)
(* session supervisor (ProcessManager) and the auto-record state machine   *)
(* (AutoRecordManager).  Each component has its own next-state relation    *)
(* and specification over the module's variables; the variables of the     *)
(* other components stay at their initial values.                          *)
(*                                                                         *)
(* JavaScript scheduling: a handler runs to its next await without         *)
(* interruption.  A continuation of an already settled promise is a        *)
(* microtask: it runs before any timer or I/O event (a macrotask), but     *)
(* other code that is itself running in a microtask may come first.        *)
(***************************************************************************)
EXTENDS Integers, Sequences, FiniteSets, TLC

\* ------------------------------------------------------------------ bounds
MaxProcs == 2        \* pipeline processes spawned in one behaviour
MaxUsers == 1        \* cap of one consumer class's reference count

\* ================================================================
\* SharedPipeline (src/unnamed/part_003)
\* ================================================================
VARIABLES
  pipelineProc,     \* this.pipelineProc: a process id, or NoProc for null
  pipelineConfig,   \* this.pipelineConfig: a configuration, or NullCfg
  lastConfig,       \* this.lastConfig
  starting,         \* this.starting is a pending promise
  startChild,       \* the child the in-flight startPipeline is health-checking
  users,            \* this.users: consumer class -> count (a partial map)
  restarting,       \* this.restarting
  restartWait,      \* where the restart is: "none", "timer", "start"
  intentionalStop,  \* this.intentionalStop
  procs,            \* every process spawned: its state and whether SIGINT was sent
  nextProc,         \* number of processes spawned so far
  calls             \* the retain calls in flight

pipeVars == <<pipelineProc, pipelineConfig, lastConfig, starting, startChild, users,
              restarting, restartWait, intentionalStop, procs, nextProc, calls>>

\* ---- camera lock (src/server.js) ----
VARIABLES
  busy,        \* let busy: the in-process flag
  lockFile,    \* /tmp/camera.lock: whether it exists, and what a reader finds in it
  now,         \* Date.now(), in seconds
  lockers,     \* the requests using the lock: where each is in tryAcquireLock / releaseLock
  ret,         \* the value the last step returned to its caller, if it returned one
  overlap      \* whether two calls of the lock functions have ever run at the same time

lockVars == <<busy, lockFile, now, lockers, ret, overlap>>

\* ---- session supervisor: ProcessManager (src/src/session/tailParser.js) ----
VARIABLES
  currentSession,  \* this.currentSession: a job id, or NoJob for null
  session,         \* the session object of each job: status, stopRequested, exits, errorMessage,
                   \* stoppedAt (0: null; n: the Date.now() of the n-th run of finishSession)
  children,        \* session.record / session.inference: the two subprocesses of each job
  starts,          \* where the startSession call of each job is
  stops,           \* the stopSession calls awaiting terminateProcess: [job, waiting]
  sessLock,        \* /tmp/session.lock: whether it exists and whose pids it holds
  lockUnlinks,     \* unlinks of the lock file issued by finishSession and not yet done
  finCount         \* per job: how many times the body of finishSession has run

sessVars == <<currentSession, session, children, starts, stops, sessLock, lockUnlinks,
              finCount>>

\* ---- auto-record state machine: AutoRecordManager (src/unnamed/part_005) ----
VARIABLES
  ar,           \* the fields of AutoRecordManager (pollArmed: pollHandle is a pending timer)
  strayTimers,  \* pending poll timers that pollHandle no longer refers to
  inFlight,     \* ticks suspended at await detector.getLatestFrame()
  tasks,        \* suspended calls: start, trans(itionToRecording), stopseq, userstop;
                \* rejections of start() on their way to its caller
  detRunning,   \* the detector subprocess is up (AutoRecordDetector.proc)
  rec,          \* RecorderController: process (isRecording) and stopping
  pauseCfg,     \* options.pauseDetectorDuringRecording
  recCalls,     \* recorder.startRecording / stopRecording calls since the last start()
  disturbed,    \* a stop() call, a rejection or a recorder exit on its own has occurred
  startFrom,    \* the state the last accepted start() was called in
  stopped,      \* a stop() called in an active state has returned, no start() accepted since
  win           \* the stability window as the detections define it: reference box, start

autoVars == <<ar, strayTimers, inFlight, tasks, detRunning, rec, pauseCfg, recCalls, disturbed,
              startFrom, stopped, win>>

\* ---- ProcessManager.terminateProcess with its timers (src/src/session/tailParser.js) ----
VARIABLES
  tchild,   \* the subprocess under each label: running / exited / closed, and child.killed
  tcall,    \* the terminateProcess call for each label: its promise and its two timers
  sent,     \* the signals delivered to each subprocess, in order
  clock     \* the time, in seconds

termVars == <<tchild, tcall, sent, clock>>

\* ---- MJPEG stream routes (src/server.js) ----
VARIABLES
  handlers,     \* the stream requests awaiting sharedPipeline.retain, and their class
  consumers,    \* every consumer attached so far: its entry in previewSessions /
                \* aiPreviewSessions, its process, its response, the events that fired
  nextConsumer, \* previewSessionCounter + aiPreviewSessionCounter
  streamState   \* let streamingActive, let streamClients

streamVars == <<handlers, consumers, nextConsumer, streamState>>

\* ---- one session and its files: ProcessManager (src/src/session/tailParser.js) ----
VARIABLES
  pm            \* one session of ProcessManager with the files it writes: the state
                \* record, the lock file, the writes and unlinks in flight

fileVars == <<pm>>

vars == <<pipeVars, lockVars, sessVars, autoVars, termVars, streamVars, fileVars>>

\* what the actions of one component leave alone
notPipe == <<lockVars, sessVars, autoVars, termVars, streamVars, fileVars>>
notLock == <<pipeVars, sessVars, autoVars, termVars, streamVars, fileVars>>
notSess == <<pipeVars, lockVars, autoVars, termVars, streamVars, fileVars>>
notAuto == <<pipeVars, lockVars, sessVars, termVars, streamVars, fileVars>>
notTerm == <<pipeVars, lockVars, sessVars, autoVars, streamVars, fileVars>>
notStream == <<lockVars, sessVars, autoVars, termVars, fileVars>>
notFile == <<pipeVars, lockVars, sessVars, autoVars, termVars, streamVars>>

NoProc == 0
NullCfg == [width |-> 0, height |-> 0, fps |-> 0]
ProcIds == 1..MaxProcs
\* the retain calls that can be in flight together
Callers == {"c1", "c2"}

\* The constructor's classes, and the classes the modelled callers use: the session
\* supervisor ('session') and the shared capture ('capture', no entry at first).
ConstructorClasses == {"preview", "session"}
Classes == {"session", "capture"}

\* 1280x720@30, the three configurations that differ from it in one field, and
\* 640x480@15.
Configs ==
  { [width |-> 1280, height |-> 720, fps |-> 30],
    [width |-> 640,  height |-> 480, fps |-> 15],
    [width |-> 640,  height |-> 720, fps |-> 30],
    [width |-> 1280, height |-> 480, fps |-> 30],
    [width |-> 1280, height |-> 720, fps |-> 15] }

NoProcRec == [st |-> "none", sig |-> FALSE]
IdleCall == [pc |-> "idle", type |-> "preview", cfg |-> NullCfg, err |-> "none"]

\* users[type], reading a class that has no entry as 0
Count(u, type) == IF type \in DOMAIN u THEN u[type] ELSE 0

RECURSIVE SumOver(_, _)
SumOver(u, S) ==
  IF S = {} THEN 0
  ELSE LET t == CHOOSE x \in S : TRUE IN u[t] + SumOver(u, S \ {t})

\* Object.values(this.users).reduce((sum, value) => sum + value, 0)
Total(u) == SumOver(u, DOMAIN u)

\* if (this.users[type] === undefined) this.users[type] = 0
WithClass(u, type) ==
  IF type \in DOMAIN u THEN u ELSE [t \in DOMAIN u \cup {type} |-> Count(u, t)]

isRunning == pipelineProc # NoProc /\ procs[pipelineProc].st = "alive"

isConfigCompatibleNoFps(config) ==
  \/ pipelineConfig = NullCfg
  \/ /\ pipelineConfig.width = config.width
     /\ pipelineConfig.height = config.height

isConfigCompatible(config) ==
  \/ pipelineConfig = NullCfg
  \/ /\ pipelineConfig.width = config.width
     /\ pipelineConfig.height = config.height
     /\ pipelineConfig.fps = config.fps

\* What ensureRunning(config) does when called
ensureRunningKind(config) ==
  IF isRunning
    THEN IF isConfigCompatible(config) THEN "ok" ELSE "conflict"
    ELSE IF starting THEN "join" ELSE "start"

\* a settled promise's continuation is queued: no timer or I/O event runs before it
MicrotaskPending == \E c \in Callers : calls[c].pc \in {"resume", "rejected"}

\* startPipeline(config), up to its await of the health check
startPipeline(config) ==
  /\ nextProc < MaxProcs
  /\ intentionalStop' = FALSE
  /\ pipelineConfig' = config
  /\ lastConfig' = config
  /\ nextProc' = nextProc + 1
  /\ procs' = [procs EXCEPT ![nextProc + 1] = [st |-> "alive", sig |-> FALSE]]
  /\ pipelineProc' = nextProc + 1
  /\ startChild' = nextProc + 1
  /\ starting' = TRUE

\* stopPipeline(reason): SIGINT to a live pipeline process
stopPipeline ==
  IF pipelineProc = NoProc \/ procs[pipelineProc].st # "alive"
    THEN UNCHANGED <<intentionalStop, procs>>
    ELSE /\ intentionalStop' = TRUE
         /\ procs' = [procs EXCEPT ![pipelineProc].sig = TRUE]

maybeStop(u) ==
  IF Total(u) = 0 THEN stopPipeline ELSE UNCHANGED <<intentionalStop, procs>>

\* maybeRestart(): schedule ensureRunning(lastConfig) after restartDelayMs
maybeRestart ==
  IF Total(users) = 0 \/ restarting \/ starting \/ lastConfig = NullCfg
    THEN UNCHANGED <<restarting, restartWait>>
    ELSE /\ restarting' = TRUE
         /\ restartWait' = "timer"

\* the cap of a class's count: the AI stream route admits one consumer by a test of
\* its own, so the cap leaves room for a second
UserCap(type) == IF type = "ai-preview" THEN MaxUsers + 1 ELSE MaxUsers

\* retain(type, config), up to its await of ensureRunning
RetainBody(c, type, config) ==
  /\ calls[c].pc = "idle"
  /\ Count(users, type)
       + Cardinality({d \in Callers : calls[d].pc # "idle" /\ calls[d].type = type})
       < UserCap(type)
  /\ users' = WithClass(users, type)
  /\ LET kind == ensureRunningKind(config) IN
       CASE kind = "conflict" ->
              /\ calls' = [calls EXCEPT ![c] =
                   [pc |-> "rejected", type |-> type, cfg |-> config, err |-> "conflict"]]
              /\ UNCHANGED <<pipelineProc, pipelineConfig, lastConfig, starting,
                             startChild, intentionalStop, procs, nextProc>>
         [] kind = "ok" ->
              /\ calls' = [calls EXCEPT ![c] =
                   [pc |-> "resume", type |-> type, cfg |-> config, err |-> "none"]]
              /\ UNCHANGED <<pipelineProc, pipelineConfig, lastConfig, starting,
                             startChild, intentionalStop, procs, nextProc>>
         [] kind = "join" ->
              /\ calls' = [calls EXCEPT ![c] =
                   [pc |-> "awaitStart", type |-> type, cfg |-> NullCfg, err |-> "none"]]
              /\ UNCHANGED <<pipelineProc, pipelineConfig, lastConfig, starting,
                             startChild, intentionalStop, procs, nextProc>>
         [] kind = "start" ->
              /\ startPipeline(config)
              /\ calls' = [calls EXCEPT ![c] =
                   [pc |-> "awaitStart", type |-> type, cfg |-> NullCfg, err |-> "none"]]
  /\ UNCHANGED <<restarting, restartWait>>

\* a retain call of a caller that does nothing else in the same step
RetainCall(c, type, config) ==
  /\ RetainBody(c, type, config)
  /\ UNCHANGED notPipe

\* retain after ensureRunning returned at once: this.users[type] += 1
RetainResume(c) ==
  /\ calls[c].pc = "resume"
  /\ users' = [users EXCEPT ![calls[c].type] = @ + 1]
  /\ calls' = [calls EXCEPT ![c] = IdleCall]
  /\ UNCHANGED <<pipelineProc, pipelineConfig, lastConfig, starting, startChild,
                 restarting, restartWait, intentionalStop, procs, nextProc>>
  /\ UNCHANGED notPipe

\* the caller of a rejected retain takes the error
RetainRejected(c) ==
  /\ calls[c].pc = "rejected"
  /\ calls' = [calls EXCEPT ![c] = IdleCall]
  /\ UNCHANGED <<pipelineProc, pipelineConfig, lastConfig, starting, startChild, users,
                 restarting, restartWait, intentionalStop, procs, nextProc>>
  /\ UNCHANGED notPipe

\* release(type)
Release(type) ==
  /\ users' = [WithClass(users, type) EXCEPT
                 ![type] = IF Count(users, type) > 0 THEN Count(users, type) - 1 ELSE 0]
  /\ maybeStop(users')
  /\ UNCHANGED <<pipelineProc, pipelineConfig, lastConfig, starting, startChild,
                 restarting, restartWait, nextProc, calls>>
  /\ UNCHANGED notPipe

\* a health check that does not look at child.exitCode
HealthCheckBlind ==
  /\ starting
  /\ ~MicrotaskPending
  /\ starting' = FALSE
  /\ LET waiting == {c \in Callers : calls[c].pc = "awaitStart"}
         more(type) == Cardinality({c \in waiting : calls[c].type = type})
     IN /\ users' = [t \in DOMAIN users |-> users[t] + more(t)]
        /\ calls' = [c \in Callers |-> IF c \notin waiting THEN calls[c] ELSE IdleCall]
  /\ IF restartWait = "start"
       THEN restarting' = FALSE /\ restartWait' = "none"
       ELSE UNCHANGED <<restarting, restartWait>>
  /\ UNCHANGED <<pipelineProc, pipelineConfig, lastConfig, startChild,
                 intentionalStop, procs, nextProc>>
  /\ UNCHANGED notPipe

\* the end of waitForHealthy's 500 ms window and the continuations it settles:
\* starting = null, then every retain awaiting this start, then the restart
HealthCheck ==
  /\ starting
  /\ ~MicrotaskPending
  /\ starting' = FALSE
  /\ LET ok == procs[startChild].st = "alive"
         waiting == {c \in Callers : calls[c].pc = "awaitStart"}
         more(type) == Cardinality({c \in waiting : calls[c].type = type})
     IN /\ users' = IF ok THEN [t \in DOMAIN users |-> users[t] + more(t)] ELSE users
        /\ calls' = [c \in Callers |->
                       IF c \notin waiting THEN calls[c]
                       ELSE IF ok THEN IdleCall
                       ELSE [calls[c] EXCEPT !.pc = "rejected", !.err = "busy"]]
  /\ IF restartWait = "start"
       THEN restarting' = FALSE /\ restartWait' = "none"
       ELSE UNCHANGED <<restarting, restartWait>>
  /\ UNCHANGED <<pipelineProc, pipelineConfig, lastConfig, startChild,
                 intentionalStop, procs, nextProc>>
  /\ UNCHANGED notPipe

\* the restart timer fires: ensureRunning(this.lastConfig), then restarting = false
RestartFire ==
  /\ restartWait = "timer"
  /\ ~MicrotaskPending
  /\ LET kind == ensureRunningKind(lastConfig) IN
       CASE kind \in {"ok", "conflict"} ->
              /\ restarting' = FALSE
              /\ restartWait' = "none"
              /\ UNCHANGED <<pipelineProc, pipelineConfig, lastConfig, starting,
                             startChild, intentionalStop, procs, nextProc>>
         [] kind = "join" ->
              /\ restartWait' = "start"
              /\ UNCHANGED <<restarting, pipelineProc, pipelineConfig, lastConfig,
                             starting, startChild, intentionalStop, procs, nextProc>>
         [] kind = "start" ->
              /\ startPipeline(lastConfig)
              /\ restartWait' = "start"
              /\ UNCHANGED restarting
  /\ UNCHANGED <<users, calls>>
  /\ UNCHANGED notPipe

\* a pipeline process ends (on its own or after SIGINT): child.exitCode is set
ProcExit(p) ==
  /\ procs[p].st = "alive"
  /\ ~MicrotaskPending
  /\ procs' = [procs EXCEPT ![p].st = "exited"]
  /\ UNCHANGED <<pipelineProc, pipelineConfig, lastConfig, starting, startChild, users,
                 restarting, restartWait, intentionalStop, nextProc, calls>>
  /\ UNCHANGED notPipe

\* child.on('close'): runs for whichever child closed, on this
ProcClose(p) ==
  /\ procs[p].st = "exited"
  /\ ~MicrotaskPending
  /\ procs' = [procs EXCEPT ![p].st = "closed"]
  /\ pipelineProc' = NoProc
  /\ pipelineConfig' = NullCfg
  /\ IF ~intentionalStop THEN maybeRestart ELSE UNCHANGED <<restarting, restartWait>>
  /\ UNCHANGED <<lastConfig, starting, startChild, users, intentionalStop, nextProc, calls>>
  /\ UNCHANGED notPipe

PipeInit ==
  /\ pipelineProc = NoProc
  /\ pipelineConfig = NullCfg
  /\ lastConfig = NullCfg
  /\ starting = FALSE
  /\ startChild = NoProc
  /\ users = [t \in ConstructorClasses |-> 0]
  /\ restarting = FALSE
  /\ restartWait = "none"
  /\ intentionalStop = FALSE
  /\ procs = [p \in ProcIds |-> NoProcRec]
  /\ nextProc = 0
  /\ calls = [c \in Callers |-> IdleCall]

PipeNext ==
  \/ \E c \in Callers, type \in Classes, config \in Configs : RetainCall(c, type, config)
  \/ \E c \in Callers : RetainResume(c)
  \/ \E c \in Callers : RetainRejected(c)
  \/ \E type \in Classes : Release(type)
  \/ HealthCheck
  \/ RestartFire
  \/ \E p \in ProcIds : ProcExit(p)
  \/ \E p \in ProcIds : ProcClose(p)

\* ================================================================
\* Camera lock (src/server.js: isBusy, cleanupStaleLock, tryAcquireLock, releaseLock)
\* ================================================================
\* Times are in seconds: COMMAND_GRACE_MS = 3000, the 5000 ms floor of the expiry.
CommandGraceS == 3
MinExpiryS == 5

\* the requests that use the lock, and the durations they expect to hold it for
Lockers == {"A", "B", "C"}
ExpectedS == {1, 5}

\* the instants at which the clock is read: a lock taken at 0 for 1 s (expiry 5) is
\* stale at 6, one taken for 5 s (expiry 8) is not
Instants == {0, 6}

\* What a reader finds in the lock file.  form: whether JSON.parse gives an object
\* ("json") or throws ("garbage"); expKind: the expiresAt field is a number ("num"),
\* missing ("absent") or a value that Number() turns into NaN ("nan"); hasCreated:
\* whether there is a createdAt date; mtime: the file's modification time.
NoFile == [exists |-> FALSE, form |-> "json", expKind |-> "absent", expiresAt |-> 0,
           hasCreated |-> FALSE, createdAt |-> 0, mtime |-> 0]

\* readFile(...).catch(() => ''): the empty string does not parse
NoContent == [NoFile EXCEPT !.form = "garbage"]

\* ctx tells which call the locker is in: 1 tryAcquireLock (cleanupStaleLock at its
\* top), 2 tryAcquireLock (cleanupStaleLock in its EEXIST handler), 3 isBusy,
\* 4 the cleanupStaleLock of the server's startup, 5 the isBusy of POST
\* /api/session/start, 6 the isBusy of POST /api/camera/auto-record/start.  t0 is the
\* instant of the call.
IdleLocker == [pc |-> "idle", ctx |-> 1, expected |-> 0, expiresAt |-> 0, mtime |-> 0,
               t0 |-> 0]

\* the value a call has just returned (cleared by the next step of any call)
NoRet == [who |-> "none", op |-> "none", val |-> "none", t0 |-> 0]

OpOf(ctx) == IF ctx \in {1, 2} THEN "tryAcquireLock"
             ELSE IF ctx = 4 THEN "cleanupStaleLock" ELSE "isBusy"

Returns(k, val) ==
  ret' = [who |-> k, op |-> OpOf(lockers[k].ctx), val |-> val, t0 |-> lockers[k].t0]

Bool(b) == IF b THEN "true" ELSE "false"

\* a call of k is between its first and its last step
MidCall(k) == lockers[k].pc \notin {"idle", "holding", "camera", "proceed"}

\* the startup code has not reached app.listen yet
Booting == \E k \in Lockers : lockers[k].ctx = 4

\* k starts a call: does it run while another call is still running?
Begins(k) == overlap' = (overlap \/ \E j \in Lockers \ {k} : MidCall(j))

Max(a, b) == IF a >= b THEN a ELSE b

\* Date.now() + Math.max(expectedMs + COMMAND_GRACE_MS, 5000)
ExpiresAt(expected) == now + Max(expected + CommandGraceS, MinExpiryS)

\* createdAt of the payload: the instant at which its expiresAt was computed
CreatedAt(l) == l.expiresAt - Max(l.expected + CommandGraceS, MinExpiryS)

\* fallback TTL (LOCK_FALLBACK_TTL_MS): longer than the clock runs
FallbackTtlS == 600

\* a JavaScript number: NaN, or the integer `at`
NaN == [nan |-> TRUE, at |-> 0]
Num(n) == [nan |-> FALSE, at |-> n]

\* cleanupStaleLock, from `let expiresAt = stat.mtimeMs + LOCK_FALLBACK_TTL_MS` to the
\* end of the inner try: the expiry of the content read, given the mtime of the stat.
\* A truthy expiresAt goes through Number(); a falsy one (missing, 0) leaves the
\* choice to createdAt; a parse error leaves the mtime basis.
parsedExpiry(content, mtime) ==
  IF content.form # "json" THEN Num(mtime + FallbackTtlS)
  ELSE IF content.expKind = "nan" THEN NaN
  ELSE IF content.expKind = "num" /\ content.expiresAt # 0 THEN Num(content.expiresAt)
  ELSE IF content.hasCreated THEN Num(content.createdAt + FallbackTtlS)
  ELSE Num(mtime + FallbackTtlS)

\* Date.now() > expiresAt, which is false for NaN
isStale(e) == ~e.nan /\ now > e.at

\* the route a request came in by
RouteOf(ctx) == IF ctx = 5 THEN "session/start" ELSE "auto-record/start"

\* the answer of a route that refuses the request
Refused(k, route) == ret' = [who |-> k, op |-> route, val |-> "409", t0 |-> now]

\* isBusy() has returned val.  A plain caller has its answer; the two start routes
\* answer 409 'Camera busy' on true and go on to start on false
isBusyReturns(k, val) ==
  IF lockers[k].ctx = 3
    THEN /\ lockers' = [lockers EXCEPT ![k] = IdleLocker]
         /\ Returns(k, Bool(val))
  ELSE IF val
    THEN /\ lockers' = [lockers EXCEPT ![k] = IdleLocker]
         /\ Refused(k, RouteOf(lockers[k].ctx))
    ELSE /\ lockers' = [lockers EXCEPT ![k] = [IdleLocker EXCEPT !.pc = "proceed",
                                                                !.ctx = lockers[k].ctx]]
         /\ ret' = NoRet

\* cleanupStaleLock has returned `stale`.  ctx 1 is the call at the top of
\* tryAcquireLock: if (busy) return false, else the payload is built and the
\* exclusive write is issued.  ctx 2 is the call in the EEXIST handler: a stale lock
\* makes tryAcquireLock start over, otherwise it returns false.  ctx 3 is isBusy:
\* if (stale) return false; return true.  ctx 4 is the startup call.
AfterCleanup(k, stale) ==
  IF lockers[k].ctx = 1
    THEN IF busy
           THEN /\ lockers' = [lockers EXCEPT ![k] = IdleLocker]
                /\ Returns(k, "false")
           ELSE /\ lockers' = [lockers EXCEPT ![k].pc = "write", ![k].mtime = 0,
                                              ![k].expiresAt = ExpiresAt(lockers[k].expected)]
                /\ ret' = NoRet
    ELSE IF lockers[k].ctx = 2
    THEN IF stale
           THEN /\ lockers' = [lockers EXCEPT ![k].pc = "stat", ![k].ctx = 1, ![k].mtime = 0]
                /\ ret' = NoRet
           ELSE /\ lockers' = [lockers EXCEPT ![k] = IdleLocker]
                /\ Returns(k, "false")
    ELSE IF lockers[k].ctx = 4
    THEN /\ lockers' = [lockers EXCEPT ![k] = IdleLocker]
         /\ Returns(k, Bool(stale))
    ELSE isBusyReturns(k, ~stale)

\* a request calls tryAcquireLock(expectedMs): cleanupStaleLock issues its stat
TryAcquireLock(k, expected) ==
  /\ lockers[k].pc = "idle"
  /\ ~Booting
  /\ lockers' = [lockers EXCEPT ![k] = [IdleLocker EXCEPT !.pc = "stat", !.expected = expected,
                                                          !.t0 = now]]
  /\ ret' = NoRet
  /\ Begins(k)
  /\ UNCHANGED <<busy, lockFile, now>>
  /\ UNCHANGED notLock

\* a request calls isBusy(): if (busy) return true, else fsp.access is issued
IsBusy(k) ==
  /\ lockers[k].pc = "idle"
  /\ ~Booting
  /\ IF busy
       THEN /\ ret' = [who |-> k, op |-> "isBusy", val |-> "true", t0 |-> now]
            /\ UNCHANGED lockers
       ELSE /\ lockers' = [lockers EXCEPT ![k] = [IdleLocker EXCEPT !.pc = "access", !.ctx = 3,
                                                               !.t0 = now]]
            /\ ret' = NoRet
  /\ Begins(k)
  /\ UNCHANGED <<busy, lockFile, now>>
  /\ UNCHANGED notLock

\* isBusy: fsp.access completes (no file: return false), cleanupStaleLock issues its stat
Access(k) ==
  /\ lockers[k].pc = "access"
  /\ IF lockFile.exists
       THEN /\ lockers' = [lockers EXCEPT ![k].pc = "stat"]
            /\ ret' = NoRet
       ELSE isBusyReturns(k, FALSE)
  /\ UNCHANGED <<busy, lockFile, now, overlap>>
  /\ UNCHANGED notLock

\* cleanupStaleLock: fsp.stat completes (ENOENT: return false)
CleanupStat(k) ==
  /\ lockers[k].pc = "stat"
  /\ IF lockFile.exists
       THEN /\ lockers' = [lockers EXCEPT ![k].pc = "read", ![k].mtime = lockFile.mtime]
            /\ ret' = NoRet
       ELSE AfterCleanup(k, FALSE)
  /\ UNCHANGED <<busy, lockFile, now, overlap>>
  /\ UNCHANGED notLock

\* cleanupStaleLock: fsp.readFile completes, the expiry is computed and compared
\* with Date.now(); a stale lock gets its unlink issued
CleanupRead(k) ==
  /\ lockers[k].pc = "read"
  /\ LET content == IF lockFile.exists THEN lockFile ELSE NoContent
     IN IF isStale(parsedExpiry(content, lockers[k].mtime))
          THEN /\ lockers' = [lockers EXCEPT ![k].pc = "unlink", ![k].mtime = 0]
               /\ ret' = NoRet
          ELSE AfterCleanup(k, FALSE)
  /\ UNCHANGED <<busy, lockFile, now, overlap>>
  /\ UNCHANGED notLock

\* cleanupStaleLock: fsp.unlink completes (whatever file is there now), return true
CleanupUnlink(k) ==
  /\ lockers[k].pc = "unlink"
  /\ lockFile' = NoFile
  /\ AfterCleanup(k, TRUE)
  /\ UNCHANGED <<busy, now, overlap>>
  /\ UNCHANGED notLock

\* tryAcquireLock: fsp.writeFile(LOCK_FILE, payload, { flag: 'wx' }) completes.  The
\* payload holds createdAt and expiresAt; the holder keeps the expiry it wrote.
WriteLockFile(k) ==
  /\ lockers[k].pc = "write"
  /\ IF lockFile.exists
       THEN /\ lockers' = [lockers EXCEPT ![k].pc = "stat", ![k].ctx = 2, ![k].expiresAt = 0]
            /\ ret' = NoRet
            /\ UNCHANGED <<busy, lockFile>>
       ELSE /\ lockFile' = [exists |-> TRUE, form |-> "json", expKind |-> "num",
                            expiresAt |-> lockers[k].expiresAt, hasCreated |-> TRUE,
                            createdAt |-> CreatedAt(lockers[k]), mtime |-> now]
            /\ busy' = TRUE
            /\ lockers' = [lockers EXCEPT ![k] = [IdleLocker EXCEPT !.pc = "holding",
                                                    !.expiresAt = lockers[k].expiresAt]]
            /\ Returns(k, "true")
  /\ UNCHANGED <<now, overlap>>
  /\ UNCHANGED notLock

\* tryAcquireLock: the write fails with an error other than EEXIST: throw err
WriteLockFailed(k) ==
  /\ lockers[k].pc = "write"
  /\ lockers' = [lockers EXCEPT ![k] = IdleLocker]
  /\ Returns(k, "threw")
  /\ UNCHANGED <<busy, lockFile, now, overlap>>
  /\ UNCHANGED notLock

\* releaseLock without its first line
ReleaseLockKeepBusy(k) ==
  /\ lockers[k].pc = "holding"
  /\ lockers' = [lockers EXCEPT ![k] = [IdleLocker EXCEPT !.pc = "releasing"]]
  /\ ret' = NoRet
  /\ Begins(k)
  /\ UNCHANGED <<busy, lockFile, now>>
  /\ UNCHANGED notLock

\* the holder calls releaseLock(): busy = false, the unlink is issued
ReleaseLock(k) ==
  /\ lockers[k].pc = "holding"
  /\ busy' = FALSE
  /\ lockers' = [lockers EXCEPT ![k] = [IdleLocker EXCEPT !.pc = "releasing"]]
  /\ ret' = NoRet
  /\ Begins(k)
  /\ UNCHANGED <<lockFile, now>>
  /\ UNCHANGED notLock

\* releaseLock: fsp.unlink completes
ReleaseUnlink(k) ==
  /\ lockers[k].pc = "releasing"
  /\ lockFile' = NoFile
  /\ lockers' = [lockers EXCEPT ![k] = IdleLocker]
  /\ ret' = NoRet
  /\ UNCHANGED <<busy, now, overlap>>
  /\ UNCHANGED notLock

\* time passes
Tick ==
  /\ \E t \in Instants : t > now /\ now' = t
  /\ UNCHANGED <<busy, lockFile, lockers, ret, overlap>>
  /\ UNCHANGED notLock

\* Lock files a previous run can have left behind (times before the start are
\* negative): each has its expiry at 5 by the basis it offers, so it is fresh at 0
\* and stale from 6 on; the last one expired before the start.
LeftAt == MinExpiryS
Leftovers ==
  { [exists |-> TRUE, form |-> "json", expKind |-> "num", expiresAt |-> LeftAt,
     hasCreated |-> TRUE, createdAt |-> 0 - 3, mtime |-> 0 - 3],
    [exists |-> TRUE, form |-> "json", expKind |-> "absent", expiresAt |-> 0,
     hasCreated |-> TRUE, createdAt |-> LeftAt - FallbackTtlS, mtime |-> LeftAt - FallbackTtlS],
    [exists |-> TRUE, form |-> "json", expKind |-> "nan", expiresAt |-> 0,
     hasCreated |-> TRUE, createdAt |-> LeftAt - FallbackTtlS, mtime |-> LeftAt - FallbackTtlS],
    [exists |-> TRUE, form |-> "garbage", expKind |-> "absent", expiresAt |-> 0,
     hasCreated |-> FALSE, createdAt |-> 0, mtime |-> LeftAt - FallbackTtlS],
    [exists |-> TRUE, form |-> "json", expKind |-> "num", expiresAt |-> 0 - 1,
     hasCreated |-> TRUE, createdAt |-> 0 - 9, mtime |-> 0 - 9] }

\* The module has been loaded (let busy = false) and the startup code has called
\* cleanupStaleLock(); app.listen comes after its return.
LockInit(files) ==
  /\ busy = FALSE
  /\ lockFile \in files
  /\ now = 0
  /\ lockers = [k \in Lockers |-> IF k = "A" THEN [IdleLocker EXCEPT !.pc = "stat", !.ctx = 4]
                                  ELSE IdleLocker]
  /\ ret = NoRet
  /\ overlap = FALSE

LockNext ==
  \/ \E k \in Lockers, e \in ExpectedS : TryAcquireLock(k, e)
  \/ \E k \in Lockers : IsBusy(k)
  \/ \E k \in Lockers : Access(k)
  \/ \E k \in Lockers : CleanupStat(k)
  \/ \E k \in Lockers : CleanupRead(k)
  \/ \E k \in Lockers : CleanupUnlink(k)
  \/ \E k \in Lockers : WriteLockFile(k)
  \/ \E k \in Lockers : WriteLockFailed(k)
  \/ \E k \in Lockers : ReleaseLock(k)
  \/ \E k \in Lockers : ReleaseUnlink(k)
  \/ Tick

\* ================================================================
\* ProcessManager (src/src/session/tailParser.js)
\* ================================================================
Jobs == {1, 2}
NoJob == 0
Labels == {"record", "inference"}

\* exit codes of a subprocess; a failed spawn leaves a negative errno
SpawnErrCode == -2
ExitCodes == {0, 1}

NoMsg == [kind |-> "none", label |-> "none"]
NoSession == [status |-> "none", stopRequested |-> FALSE, exits |-> {}, errorMessage |-> NoMsg,
              stoppedAt |-> 0]
NoChild == [st |-> "none", code |-> 0, killed |-> FALSE, sig |-> "none"]
NoLock == [exists |-> FALSE, pidsOf |-> NoJob]

\* the session state the synchronous helpers of ProcessManager read and write
Cur == [session |-> session, children |-> children, finCount |-> finCount,
        lockUnlinks |-> lockUnlinks]

Commit(s) ==
  /\ session' = s.session
  /\ children' = s.children
  /\ finCount' = s.finCount
  /\ lockUnlinks' = s.lockUnlinks

\* finishSession(session, status): the status change, then writeState, releaseLock
\* (its unlink is not awaited), finalizeVideo, pipeline.release('session') and
\* onSessionFinished, all issued in the same turn
finishSession(s, j, status) ==
  IF s.session[j].status # "running" THEN s
  ELSE [s EXCEPT !.session[j].status = status,
                 !.session[j].stoppedAt = s.finCount[j] + 1,
                 !.finCount[j] = @ + 1,
                 !.lockUnlinks = @ + 1]

\* failSession(session, message)
failSession(s, j, msg) ==
  IF s.session[j].status # "running" THEN s
  ELSE finishSession([s EXCEPT !.session[j].errorMessage = msg], j, "failed")

\* terminateProcess returns at once: no child, child.killed, or child.exitCode set
returnsAtOnce(s, j, l) ==
  \/ s.children[j][l].st # "alive"
  \/ s.children[j][l].killed

\* terminateProcess(child, label, 'SIGINT'), to the promise it returns
terminateProcess(s, j, l) ==
  IF returnsAtOnce(s, j, l) THEN s
  ELSE [s EXCEPT !.children[j][l].killed = TRUE, !.children[j][l].sig = "SIGINT"]

\* maybeFinalize reading the exits ledger under a key spawnProcess never writes
maybeFinalizeWrongKey(s, j) ==
  LET recordDone == "rpicam" \in s.session[j].exits
      inferenceDone == "inference" \in s.session[j].exits
  IN IF s.session[j].status = "running" /\ recordDone /\ inferenceDone
       THEN finishSession(s, j, "stopped")
       ELSE s

\* maybeFinalize writing the status itself once both exits are recorded
maybeFinalizeAnyStatus(s, j) ==
  LET recordDone == "record" \in s.session[j].exits
      inferenceDone == "inference" \in s.session[j].exits
  IN IF recordDone /\ inferenceDone
       THEN [s EXCEPT !.session[j].status = "stopped"]
       ELSE s

\* maybeFinalize(session)
maybeFinalize(s, j) ==
  LET recordDone == "record" \in s.session[j].exits
      inferenceDone == "inference" \in s.session[j].exits
  IN IF s.session[j].status = "running" /\ recordDone /\ inferenceDone
       THEN finishSession(s, j, "stopped")
       ELSE s

\* the sibling lookup returning the process that has just closed
otherSame(l) == l

\* label === 'record' ? session.inference : session.record
other(l) == IF l = "record" THEN "inference" ELSE "record"

\* onProcessExit failing the session on every non-zero exit code, stop requested or not
onProcessExitStrict(s, j, l, code) ==
  IF s.session[j].status # "running" THEN maybeFinalize(s, j)
  ELSE IF code # 0
    THEN terminateProcess(failSession(s, j, [kind |-> "exit", label |-> l]), j, other(l))
  ELSE LET s1 == IF ~s.session[j].stopRequested
                   THEN terminateProcess([s EXCEPT !.session[j].stopRequested = TRUE],
                                         j, other(l))
                   ELSE s
       IN maybeFinalize(s1, j)

\* onProcessExit(session, label, code, signal)
onProcessExit(s, j, l, code) ==
  IF s.session[j].status # "running" THEN maybeFinalize(s, j)
  ELSE IF ~s.session[j].stopRequested /\ code # 0
    THEN terminateProcess(failSession(s, j, [kind |-> "exit", label |-> l]), j, other(l))
  ELSE LET s1 == IF ~s.session[j].stopRequested
                   THEN terminateProcess([s EXCEPT !.session[j].stopRequested = TRUE],
                                         j, other(l))
                   ELSE s
       IN maybeFinalize(s1, j)

\* the pids cleanupStaleLock looks up in the lock's payload: the lock written by
\* acquireLock has no pids, the one rewritten by writeLock has record and inference
payloadPids(lock) == IF lock.pidsOf = NoJob THEN {} ELSE Labels

\* anyPidAlive([pids.rpicam, pids.gst]): a key the payload lacks is skipped
anyPidAlive(lock, keys) ==
  \E key \in keys \cap payloadPids(lock) : children[lock.pidsOf][key].st = "alive"

\* ---- startSession(options), one action per await ----
\* the call, up to acquireLock once ensureUploadsDir is done: 409 if a session is
\* running, else cleanupStaleLock reads the lock file.  Job ids are handed out in
\* order
StartSession(j) ==
  /\ starts[j] = "idle"
  /\ \A i \in Jobs : i < j => starts[i] # "idle"
  /\ IF currentSession # NoJob /\ session[currentSession].status = "running"
       THEN starts' = [starts EXCEPT ![j] = "rejected409"]
       ELSE starts' = [starts EXCEPT ![j] = "lockRead"]
  /\ UNCHANGED <<currentSession, session, children, stops, sessLock, lockUnlinks, finCount>>
  /\ UNCHANGED notSess

\* cleanupStaleLock: readFile is done (ENOENT: nothing to clean)
LockRead(j) ==
  /\ starts[j] = "lockRead"
  /\ IF sessLock.exists /\ ~anyPidAlive(sessLock, {"rpicam", "gst"})
       THEN starts' = [starts EXCEPT ![j] = "lockUnlink"]
       ELSE starts' = [starts EXCEPT ![j] = "lockWrite"]
  /\ UNCHANGED <<currentSession, session, children, stops, sessLock, lockUnlinks, finCount>>
  /\ UNCHANGED notSess

\* cleanupStaleLock: unlink is done; acquireLock issues its exclusive write
LockUnlink(j) ==
  /\ starts[j] = "lockUnlink"
  /\ sessLock' = NoLock
  /\ starts' = [starts EXCEPT ![j] = "lockWrite"]
  /\ UNCHANGED <<currentSession, session, children, stops, lockUnlinks, finCount>>
  /\ UNCHANGED notSess

\* acquireLock: writeFile(lockFile, payload, { flag: 'wx' }) is done.  EEXIST is
\* the 409; otherwise the session object is built, becomes currentSession, and
\* writeState and then pipeline.retain('session', ...) are awaited
LockWrite(j) ==
  /\ starts[j] = "lockWrite"
  /\ IF sessLock.exists
       THEN /\ starts' = [starts EXCEPT ![j] = "rejected409"]
            /\ UNCHANGED <<currentSession, session, sessLock>>
       ELSE /\ sessLock' = [exists |-> TRUE, pidsOf |-> NoJob]
            /\ session' = [session EXCEPT ![j] = [NoSession EXCEPT !.status = "running"]]
            /\ currentSession' = j
            /\ starts' = [starts EXCEPT ![j] = "retain"]
  /\ UNCHANGED <<children, stops, lockUnlinks, finCount>>
  /\ UNCHANGED notSess

\* retain has settled.  Resolved: both subprocesses are spawned and writeLock is
\* awaited.  Rejected: the catch block awaits releaseLock
RetainSettled(j, ok) ==
  /\ starts[j] = "retain"
  /\ IF ok
       THEN /\ children' = [children EXCEPT ![j] =
                              [l \in Labels |-> [NoChild EXCEPT !.st = "alive"]]]
            /\ starts' = [starts EXCEPT ![j] = "writeLock"]
       ELSE /\ starts' = [starts EXCEPT ![j] = "failUnlink"]
            /\ UNCHANGED children
  /\ UNCHANGED <<currentSession, session, stops, sessLock, lockUnlinks, finCount>>
  /\ UNCHANGED notSess

\* writeLock is done (a plain write: it creates the file when it is missing);
\* the second writeState follows and startSession returns the handles
LockRewritten(j) ==
  /\ starts[j] = "writeLock"
  /\ sessLock' = [exists |-> TRUE, pidsOf |-> j]
  /\ starts' = [starts EXCEPT ![j] = "returned"]
  /\ UNCHANGED <<currentSession, session, children, stops, lockUnlinks, finCount>>
  /\ UNCHANGED notSess

\* the catch block: releaseLock is done, currentSession = null, the error is rethrown
StartFailed(j) ==
  /\ starts[j] = "failUnlink"
  /\ sessLock' = NoLock
  /\ currentSession' = NoJob
  /\ starts' = [starts EXCEPT ![j] = "threw"]
  /\ UNCHANGED <<session, children, stops, lockUnlinks, finCount>>
  /\ UNCHANGED notSess

\* ---- stopSession(jobId, reason) on the active running session ----
StopSession(j) ==
  /\ currentSession = j
  /\ session[j].status = "running"
  /\ LET s0 == [Cur EXCEPT !.session[j].stopRequested = TRUE]
         waiting == {l \in Labels : ~returnsAtOnce(s0, j, l)}
         s1 == terminateProcess(terminateProcess(s0, j, "record"), j, "inference")
     IN IF waiting = {}
          THEN /\ Commit(finishSession(s1, j, "stopped"))
               /\ UNCHANGED stops
          ELSE /\ Commit(s1)
               /\ stops' = stops \cup {[job |-> j, waiting |-> waiting]}
  /\ UNCHANGED <<currentSession, starts, sessLock>>
  /\ UNCHANGED notSess

\* ---- subprocess events ----
\* a subprocess ends: child.exitCode (or its signal) is set
ChildExit(j, l, code) ==
  /\ children[j][l].st = "alive"
  /\ children' = [children EXCEPT ![j][l].st = "exited", ![j][l].code = code]
  /\ UNCHANGED <<currentSession, session, starts, stops, sessLock, lockUnlinks, finCount>>
  /\ UNCHANGED notSess

\* child.on('error'): the spawn failed; the child has a negative exit code, emits
\* no exit, and will emit close
ChildError(j, l) ==
  /\ children[j][l].st = "alive"
  /\ ~children[j][l].killed
  /\ LET s0 == [Cur EXCEPT !.children[j][l].st = "exited",
                           !.children[j][l].code = SpawnErrCode]
     IN Commit(IF s0.session[j].status = "running"
                 THEN failSession(s0, j, [kind |-> "spawn", label |-> l])
                 ELSE s0)
  /\ UNCHANGED <<currentSession, starts, stops, sessLock>>
  /\ UNCHANGED notSess

\* child.on('close'): the exit is recorded and onProcessExit runs; then the
\* terminateProcess promises waiting for this close resolve, and a stopSession
\* whose two promises are resolved goes on to finishSession
ChildClose(j, l) ==
  /\ children[j][l].st = "exited"
  /\ LET s0 == [Cur EXCEPT !.children[j][l].st = "closed",
                           !.session[j].exits = @ \cup {l}]
         s1 == onProcessExit(s0, j, l, children[j][l].code)
         resumed == {k \in stops : k.job = j /\ k.waiting = {l}}
     IN /\ Commit(IF resumed # {} THEN finishSession(s1, j, "stopped") ELSE s1)
        /\ stops' = {IF k.job = j THEN [k EXCEPT !.waiting = @ \ {l}] ELSE k :
                       k \in stops \ resumed}
  /\ UNCHANGED <<currentSession, starts, sessLock>>
  /\ UNCHANGED notSess

\* an unlink issued by finishSession's releaseLock is done
LockReleased ==
  /\ lockUnlinks > 0
  /\ lockUnlinks' = lockUnlinks - 1
  /\ sessLock' = NoLock
  /\ UNCHANGED <<currentSession, session, children, starts, stops, finCount>>
  /\ UNCHANGED notSess

SessInit ==
  /\ currentSession = NoJob
  /\ session = [j \in Jobs |-> NoSession]
  /\ children = [j \in Jobs |-> [l \in Labels |-> NoChild]]
  /\ starts = [j \in Jobs |-> "idle"]
  /\ stops = {}
  /\ sessLock = NoLock
  /\ lockUnlinks = 0
  /\ finCount = [j \in Jobs |-> 0]

SessNext ==
  \/ \E j \in Jobs : StartSession(j)
  \/ \E j \in Jobs : LockRead(j)
  \/ \E j \in Jobs : LockUnlink(j)
  \/ \E j \in Jobs : LockWrite(j)
  \/ \E j \in Jobs, ok \in BOOLEAN : RetainSettled(j, ok)
  \/ \E j \in Jobs : LockRewritten(j)
  \/ \E j \in Jobs : StartFailed(j)
  \/ \E j \in Jobs : StopSession(j)
  \/ \E j \in Jobs, l \in Labels, code \in ExitCodes : ChildExit(j, l, code)
  \/ \E j \in Jobs, l \in Labels : ChildError(j, l)
  \/ \E j \in Jobs, l \in Labels : ChildClose(j, l)
  \/ LockReleased

\* ================================================================
\* AutoRecordManager (src/unnamed/part_005), with the RecorderController
\* (src/unnamed/part_004) and the AutoRecordDetector (src/server.js)
\* ================================================================
MaxTicks == 1
MaxStray == 1
SwingEndMissingFrames == 2

\* DEFAULT_CONFIG; the two ratios are in hundredths
AddressStillMs == 2000
AddressMaxCenterDeltaPx == 14
AddressMaxAreaDeltaPct == 12
MinPersonConfPct == 20

NullTs == -1
Tstamps == {0, 1000, 2000, 3000}
NoBox == <<>>
\* bbox [x, y, w, h]: a reference box, one moved 10 px, one moved 30 px, one 20% larger
Boxes == {<<100, 100, 50, 100>>, <<110, 100, 50, 100>>, <<130, 100, 50, 100>>,
          <<100, 100, 60, 100>>}
NoClass == -1
Detection(conf, label, classId, bbox) ==
  [conf |-> conf, label |-> label, classId |-> classId, bbox |-> bbox]
LowConf == Detection(10, "person", NoClass, <<100, 100, 50, 100>>)
Detections ==
  {Detection(90, "person", NoClass, b) : b \in Boxes}
    \cup {LowConf,
          Detection(90, "ball", 32, <<100, 100, 50, 100>>),
          Detection(90, "unknown", 0, <<110, 100, 50, 100>>)}
NullFrame == [t |-> NullTs, detections |-> <<>>]
Frames ==
  {[t |-> t, detections |-> ds] :
     t \in Tstamps,
     ds \in {<<>>} \cup {<<d>> : d \in Detections}
              \cup {<<LowConf, Detection(90, "person", NoClass, <<130, 100, 50, 100>>)>>}}

ActiveStates == {"arming", "addressLocked", "recording", "finishLocked", "stopping"}

\* ---- pure helpers of the manager, on its record of fields ----
\* resetDetectionState()
resetDetectionState(a) ==
  [a EXCEPT !.lastFrameTs = NullTs, !.stableStartTs = NullTs, !.stableRefBox = NoBox,
            !.missingPersonFrames = 0]

\* resetSession(resetState = true)
resetSession(a, resetState) ==
  resetDetectionState([a EXCEPT !.state = IF resetState THEN "idle" ELSE @,
                                !.startedAt = FALSE,
                                !.recordingFilename = FALSE])

\* clearTimers(): this.timers is always empty (schedule is never called)
clearTimers(a) == [a EXCEPT !.pollArmed = FALSE]

\* fail(err)
fail(a, msg) ==
  [resetSession([clearTimers(a) EXCEPT !.lastError = msg], FALSE) EXCEPT !.state = "failed"]

\* start() accepts the call in these states only
canStartIdleOnly(st) == st = "idle"

canStart(st) == ~(st # "idle" /\ st # "failed")

\* the det.find predicate of findPerson
qualifies(det) ==
  IF det.conf < MinPersonConfPct THEN FALSE
  ELSE IF det.label = "person" THEN TRUE
  ELSE IF det.classId # NoClass THEN det.classId = 1 \/ det.classId = 0
  ELSE FALSE

\* findPerson(frame): the bbox of the first qualifying detection, or NoBox
RECURSIVE findPerson(_)
findPerson(ds) ==
  IF ds = <<>> THEN NoBox
  ELSE IF qualifies(Head(ds)) THEN Head(ds).bbox
  ELSE findPerson(Tail(ds))

Abs(n) == IF n < 0 THEN -n ELSE n

\* the comparison of isStableAddress lines 256-274, on doubled centres:
\* hypot(dx, dy) <= px  iff  (2dx)^2 + (2dy)^2 <= (2px)^2
isStable(ref, box) ==
  LET dx2 == (2 * box[1] + box[3]) - (2 * ref[1] + ref[3])
      dy2 == (2 * box[2] + box[4]) - (2 * ref[2] + ref[4])
      area == box[3] * box[4]
      prevArea == ref[3] * ref[4]
      centerOk == dx2 * dx2 + dy2 * dy2 <= 4 * AddressMaxCenterDeltaPx * AddressMaxCenterDeltaPx
      areaOk == IF prevArea > 0
                  THEN 100 * Abs(area - prevArea) <= AddressMaxAreaDeltaPct * prevArea
                  ELSE TRUE
  IN centerOk /\ areaOk

\* isStableAddress that restarts the reference box but keeps the old window start
isStableAddressKeepStart(a, box, ts) ==
  IF a.stableRefBox = NoBox
    THEN [a |-> [a EXCEPT !.stableRefBox = box, !.stableStartTs = ts], stable |-> FALSE]
  ELSE IF ~isStable(a.stableRefBox, box)
    THEN [a |-> [a EXCEPT !.stableRefBox = box], stable |-> FALSE]
  ELSE [a |-> a, stable |-> ts - a.stableStartTs >= AddressStillMs]

\* isStableAddress(det, frameTs): the fields it updates and its result
isStableAddress(a, box, ts) ==
  IF a.stableRefBox = NoBox
    THEN [a |-> [a EXCEPT !.stableRefBox = box, !.stableStartTs = ts], stable |-> FALSE]
  ELSE IF ~isStable(a.stableRefBox, box)
    THEN [a |-> [a EXCEPT !.stableRefBox = box, !.stableStartTs = ts], stable |-> FALSE]
  ELSE [a |-> a, stable |-> ts - a.stableStartTs >= AddressStillMs]

\* recorder.isRecording() read from the stopping flag instead of the process
isRecordingStopping(r) == r.process /\ r.stopping

\* RecorderController.isRecording()
isRecording(r) == r.process

\* ---- the synchronous stretches of the manager, on a record of what they touch ----
NoWin == [ref |-> NoBox, start |-> NullTs]
NoCalls == [startRec |-> 0, stopRec |-> 0]

\* resume: the continuation that follows in the microtask queue; upset: a stop()
\* call, a rejection or a recorder exit on its own happened in this step
CurA == [ar |-> ar, rec |-> rec, detRunning |-> detRunning, tasks |-> tasks,
         calls |-> recCalls, stray |-> strayTimers, resume |-> "none", upset |-> FALSE,
         stopped |-> stopped]

CommitA(m) ==
  /\ ar' = m.ar
  /\ rec' = m.rec
  /\ detRunning' = m.detRunning
  /\ tasks' = m.tasks
  /\ recCalls' = m.calls
  /\ strayTimers' = m.stray
  /\ disturbed' = (disturbed \/ m.upset)
  /\ stopped' = m.stopped

\* the call counters stop counting at two
CountCall(n) == IF n < 2 THEN n + 1 ELSE n

\* AutoRecordDetector.stop(): no await inside, it is done when it returns
detectorStop(m) == [m EXCEPT !.detRunning = FALSE]

\* safeStopRecorder(): stopRecording() is called if the recorder is recording; a
\* recorder already stopping answers at once, otherwise the caller who waits for
\* the close of the recorder process
safeStopRecorder(m, who) ==
  IF ~isRecording(m.rec) THEN m
  ELSE IF m.rec.stopping THEN [m EXCEPT !.calls.stopRec = CountCall(@)]
  ELSE [m EXCEPT !.calls.stopRec = CountCall(@),
                 !.rec.stopping = TRUE,
                 !.tasks = @ \cup {who}]

suspended(m0, m1, who) == who \in m1.tasks /\ who \notin m0.tasks

\* handleStopSequence after safeStopRecorder: detector.stop(), resetSession()
seqTail(m) == [detectorStop(m) EXCEPT !.ar = resetSession(@, TRUE)]

\* stop() after safeStopRecorder: detector.stop(), detectorPaused = false, resetSession()
userStopTail(m) ==
  [detectorStop(m) EXCEPT !.ar = resetSession([@ EXCEPT !.detectorPaused = FALSE], TRUE),
                          !.stopped = TRUE]

\* handleStopSequence() to its first real suspension
handleStopSequence(m) ==
  IF m.ar.state \notin {"finishLocked", "recording"} THEN m
  ELSE LET m1 == [m EXCEPT !.ar.state = "stopping"]
           m2 == safeStopRecorder(m1, "stopseq")
       IN IF suspended(m1, m2, "stopseq") THEN m2 ELSE [m2 EXCEPT !.resume = "seqTail"]

\* enterFinishLocked()
enterFinishLocked(m) ==
  IF m.ar.state # "recording" THEN m
  ELSE handleStopSequence([m EXCEPT !.ar.state = "finishLocked"])

\* transitionToRecording() to await recorder.startRecording(); a recorder that
\* has a process rejects the call at once (409) and the catch block calls fail
transitionToRecording(m) ==
  IF m.ar.state # "addressLocked" THEN m
  ELSE LET m1 == IF pauseCfg /\ ~m.ar.detectorPaused
                   THEN [detectorStop(m) EXCEPT !.ar.detectorPaused = TRUE]
                   ELSE m
       IN IF m1.rec.process
            THEN [m1 EXCEPT !.ar = fail(@, "recorder start"), !.upset = TRUE]
            ELSE [m1 EXCEPT !.tasks = @ \cup {"trans"}, !.calls.startRec = CountCall(@)]

\* enterAddressLocked()
enterAddressLocked(m) ==
  IF m.ar.state # "arming" THEN m
  ELSE transitionToRecording([m EXCEPT !.ar.state = "addressLocked"])

\* handleDetectionTick counting misses without ever resetting the count on a person
handleDetectionTickNoReset(m, frame) ==
  IF frame = NullFrame
    THEN IF m.ar.state = "recording"
           THEN LET m1 == [m EXCEPT !.ar.missingPersonFrames = @ + 1]
                IN IF m1.ar.missingPersonFrames >= SwingEndMissingFrames
                     THEN enterFinishLocked(m1) ELSE m1
           ELSE m
  ELSE IF m.ar.lastFrameTs = frame.t THEN m
  ELSE LET m1 == [m EXCEPT !.ar.lastFrameTs = frame.t]
           person == findPerson(frame.detections)
       IN IF person = NoBox
            THEN LET m2 == [m1 EXCEPT !.ar.missingPersonFrames = @ + 1,
                                      !.ar.stableStartTs = NullTs,
                                      !.ar.stableRefBox = NoBox]
                 IN IF m2.ar.state = "recording"
                        /\ m2.ar.missingPersonFrames >= SwingEndMissingFrames
                      THEN enterFinishLocked(m2) ELSE m2
            ELSE IF m1.ar.state = "arming"
                   THEN LET r == isStableAddress(m1.ar, person, frame.t)
                            m3 == [m1 EXCEPT !.ar = r.a]
                        IN IF r.stable THEN enterAddressLocked(m3) ELSE m3
                   ELSE m1

\* handleDetectionTick() from the frame it awaited on (every frame has a timestamp)
handleDetectionTick(m, frame) ==
  IF frame = NullFrame
    THEN IF m.ar.state = "recording"
           THEN LET m1 == [m EXCEPT !.ar.missingPersonFrames = @ + 1]
                IN IF m1.ar.missingPersonFrames >= SwingEndMissingFrames
                     THEN enterFinishLocked(m1) ELSE m1
           ELSE m
  ELSE IF m.ar.lastFrameTs = frame.t THEN m
  ELSE LET m1 == [m EXCEPT !.ar.lastFrameTs = frame.t]
           person == findPerson(frame.detections)
       IN IF person = NoBox
            THEN LET m2 == [m1 EXCEPT !.ar.missingPersonFrames = @ + 1,
                                      !.ar.stableStartTs = NullTs,
                                      !.ar.stableRefBox = NoBox]
                 IN IF m2.ar.state = "recording"
                        /\ m2.ar.missingPersonFrames >= SwingEndMissingFrames
                      THEN enterFinishLocked(m2) ELSE m2
            ELSE LET m2 == [m1 EXCEPT !.ar.missingPersonFrames = 0]
                 IN IF m2.ar.state = "arming"
                      THEN LET r == isStableAddress(m2.ar, person, frame.t)
                               m3 == [m2 EXCEPT !.ar = r.a]
                           IN IF r.stable THEN enterAddressLocked(m3) ELSE m3
                      ELSE m2

\* the finally block of tick: pollHandle = setTimeout(tick, pollIntervalMs); a
\* timer pollHandle referred to stays pending without a handle
rearm(m) ==
  IF m.ar.state = "idle" \/ m.ar.state = "failed" THEN m
  ELSE IF m.ar.pollArmed THEN [m EXCEPT !.stray = @ + 1]
  ELSE [m EXCEPT !.ar.pollArmed = TRUE]

resumeTail(m) == IF m.resume = "seqTail" THEN seqTail(m) ELSE m

\* the window of in-tolerance person detections, as the detections define it
inTolerance(ref, box) ==
  LET dx2 == (2 * box[1] + box[3]) - (2 * ref[1] + ref[3])
      dy2 == (2 * box[2] + box[4]) - (2 * ref[2] + ref[4])
  IN /\ dx2 * dx2 + dy2 * dy2 <= 4 * AddressMaxCenterDeltaPx * AddressMaxCenterDeltaPx
     /\ 100 * Abs(box[3] * box[4] - ref[3] * ref[4]) <= AddressMaxAreaDeltaPct * ref[3] * ref[4]

winAfterFrame(w, st, frame) ==
  IF frame = NullFrame \/ frame.t = ar.lastFrameTs THEN w
  ELSE LET person == findPerson(frame.detections)
       IN IF person = NoBox THEN NoWin
          ELSE IF st # "arming" THEN w
          ELSE IF w.ref # NoBox /\ inTolerance(w.ref, person) THEN w
          ELSE [ref |-> person, start |-> frame.t]

\* the window means nothing once the machine is idle or failed
winKept(a, w) == IF a.state = "idle" \/ a.state = "failed" THEN NoWin ELSE w

\* ---- start() ----
\* the call: a 409 in an active state; else clearTimers and await detector.start()
StartCall ==
  /\ tasks \cap {"start", "rejected409"} = {}
  /\ IF canStart(ar.state)
       THEN /\ ar' = [clearTimers(ar) EXCEPT !.detectorPaused = FALSE]
            /\ tasks' = tasks \cup {"start"}
            /\ startFrom' = ar.state
            /\ stopped' = FALSE
       ELSE /\ tasks' = tasks \cup {"rejected409"}
            /\ UNCHANGED <<ar, startFrom, stopped>>
  /\ UNCHANGED <<strayTimers, inFlight, detRunning, rec, pauseCfg, recCalls, disturbed, win>>
  /\ UNCHANGED notAuto

\* the caller of start() receives its rejection: the 409, or the error of detector.start()
StartRejected ==
  /\ \E t \in {"rejected409", "rejected"} : t \in tasks /\ tasks' = tasks \ {t}
  /\ UNCHANGED <<ar, strayTimers, inFlight, detRunning, rec, pauseCfg, recCalls, disturbed,
                 startFrom, stopped, win>>
  /\ UNCHANGED notAuto

\* detector.start() has settled: lines 66-73, or the rejection leaves start()
StartSettled(ok) ==
  /\ "start" \in tasks
  /\ tasks' = (tasks \ {"start"}) \cup (IF ok THEN {} ELSE {"rejected"})
  /\ IF ok
       THEN /\ ar.pollArmed => strayTimers < MaxStray
            /\ ar' = [resetDetectionState([ar EXCEPT !.lastError = "none",
                                                     !.startedAt = TRUE,
                                                     !.recordingFilename = FALSE,
                                                     !.lastRecordingFilename = FALSE])
                        EXCEPT !.state = "arming", !.pollArmed = TRUE]
            /\ strayTimers' = IF ar.pollArmed THEN strayTimers + 1 ELSE strayTimers
            /\ detRunning' = TRUE
            /\ recCalls' = NoCalls
            /\ win' = NoWin
            /\ UNCHANGED disturbed
       ELSE /\ disturbed' = TRUE
            /\ UNCHANGED <<ar, strayTimers, detRunning, recCalls, win>>
  /\ UNCHANGED <<inFlight, rec, pauseCfg, startFrom, stopped>>
  /\ UNCHANGED notAuto

\* ---- stop(reason) ----
StopCall ==
  /\ "userstop" \notin tasks
  /\ LET m0 == [CurA EXCEPT !.ar = clearTimers(@), !.upset = TRUE]
     IN IF ar.state \in {"recording", "finishLocked", "stopping"}
          THEN LET m1 == safeStopRecorder(m0, "userstop")
               IN IF suspended(m0, m1, "userstop")
                    THEN CommitA(m1) ELSE CommitA(userStopTail(m1))
          ELSE CommitA([userStopTail(m0) EXCEPT
                          !.stopped = stopped \/ ar.state \in ActiveStates])
  /\ win' = winKept(ar', win)
  /\ UNCHANGED <<inFlight, pauseCfg, startFrom>>
  /\ UNCHANGED notAuto

\* ---- the poll loop ----
\* a poll timer fires: tick() up to await this.detector.getLatestFrame()
TimerFire(which) ==
  /\ which = "poll" => ar.pollArmed
  /\ which = "stray" => strayTimers > 0
  /\ LET m0 == IF which = "poll" THEN [CurA EXCEPT !.ar.pollArmed = FALSE]
                                 ELSE [CurA EXCEPT !.stray = @ - 1]
     IN IF ar.state = "idle" \/ ar.state = "failed"
          THEN CommitA(m0) /\ UNCHANGED inFlight
        ELSE IF ar.detectorPaused /\ ar.state = "recording"
          THEN CommitA(rearm(m0)) /\ UNCHANGED inFlight
        ELSE /\ inFlight < MaxTicks
             /\ inFlight' = inFlight + 1
             /\ CommitA(m0)
  /\ UNCHANGED <<pauseCfg, startFrom, win>>
  /\ UNCHANGED notAuto

\* getLatestFrame() resolves: the rest of handleDetectionTick, then the finally
\* block, then whatever the stop sequence can do without waiting.  Timestamps
\* of the detector's frames do not decrease
FrameArrive(frame) ==
  /\ inFlight > 0
  /\ inFlight' = inFlight - 1
  /\ frame = NullFrame \/ ar.lastFrameTs = NullTs \/ frame.t >= ar.lastFrameTs
  /\ LET m1 == handleDetectionTick(CurA, frame)
         m3 == resumeTail(rearm(m1))
     IN /\ m3.stray <= MaxStray
        /\ "trans" \in tasks => (ar.state = "arming" => m1.ar.state = "arming")
        /\ CommitA(m3)
  /\ win' = winKept(ar', winAfterFrame(win, ar.state, frame))
  /\ UNCHANGED <<pauseCfg, startFrom>>
  /\ UNCHANGED notAuto

\* ---- the recorder ----
\* recorder.startRecording() has settled: transitionToRecording lines 113-116, or
\* its catch block
RecStartSettled(ok) ==
  /\ "trans" \in tasks
  /\ IF ok
       THEN CommitA([CurA EXCEPT !.tasks = @ \ {"trans"},
                                 !.rec.process = TRUE,
                                 !.ar.recordingFilename = TRUE,
                                 !.ar.lastRecordingFilename = TRUE,
                                 !.ar.state = "recording",
                                 !.ar.missingPersonFrames = 0])
       ELSE CommitA([CurA EXCEPT !.tasks = @ \ {"trans"},
                                 !.ar = fail(@, "recorder start"),
                                 !.upset = TRUE])
  /\ win' = winKept(ar', win)
  /\ UNCHANGED <<inFlight, pauseCfg, startFrom>>
  /\ UNCHANGED notAuto

\* the recorder process closes: process = null, stopping = false; the
\* stopRecording() calls waiting for the close settle (rejected unless the code
\* is 0 and the file is finalized) and their callers go on
RecorderClose(ok) ==
  /\ rec.process
  /\ LET waiting == tasks \cap {"stopseq", "userstop"}
         m0 == [CurA EXCEPT !.rec = [process |-> FALSE, stopping |-> FALSE],
                            !.tasks = @ \ waiting,
                            !.upset = ~ok \/ ~rec.stopping]
         failed(m) == IF ok THEN m ELSE [m EXCEPT !.ar = fail(@, "recorder stop")]
         m1 == IF "stopseq" \in waiting THEN seqTail(failed(m0)) ELSE m0
         m2 == IF "userstop" \in waiting THEN userStopTail(failed(m1)) ELSE m1
     IN CommitA(m2)
  /\ win' = winKept(ar', win)
  /\ UNCHANGED <<inFlight, pauseCfg, startFrom>>
  /\ UNCHANGED notAuto

\* the manager as constructed, its pauseDetectorDuringRecording option one of opts
AutoInit(opts) ==
  /\ ar = [state |-> "idle", startedAt |-> FALSE, recordingFilename |-> FALSE,
           lastRecordingFilename |-> FALSE, lastError |-> "none",
           detectorPaused |-> FALSE, pollArmed |-> FALSE, lastFrameTs |-> NullTs,
           stableStartTs |-> NullTs, stableRefBox |-> NoBox, missingPersonFrames |-> 0]
  /\ strayTimers = 0
  /\ inFlight = 0
  /\ tasks = {}
  /\ detRunning = FALSE
  /\ rec = [process |-> FALSE, stopping |-> FALSE]
  /\ pauseCfg \in opts
  /\ recCalls = NoCalls
  /\ disturbed = FALSE
  /\ startFrom = "none"
  /\ stopped = FALSE
  /\ win = NoWin

AutoNext ==
  \/ StartCall
  \/ StartRejected
  \/ \E ok \in BOOLEAN : StartSettled(ok)
  \/ StopCall
  \/ \E which \in {"poll", "stray"} : TimerFire(which)
  \/ \E frame \in Frames \cup {NullFrame} : FrameArrive(frame)
  \/ \E ok \in BOOLEAN : RecStartSettled(ok)
  \/ \E ok \in BOOLEAN : RecorderClose(ok)

\* ================================================================
\* The camera device between the capture lock and the shared pipeline
\* (src/server.js: POST /api/camera/capture, GET /api/camera/stream.mjpeg, POST
\* /api/session/start, POST /api/camera/auto-record/start; RecorderController)
\* ================================================================
\* SESSION_DEFAULTS
SessionDefaults == [width |-> 1456, height |-> 1088, fps |-> 60]

\* the requests of this part that use the lock functions, one at a time: the lock
\* file is there only while this request holds it, so cleanupStaleLock never finds one
CamLockers == {"A"}

\* lockTimeoutMs ?? 10 * 60 * 1000, in seconds
RecorderLockS == 600

\* streamingActive: set once a preview has retained the pipeline, cleared by the
\* cleanup that releases it
streamingActive == Count(users, "preview") > 0

\* sharedPipeline.getConfig() || SESSION_DEFAULTS
sourceConfig == IF pipelineConfig # NullCfg THEN pipelineConfig ELSE SessionDefaults

\* no consumer of this class, retained or on its way
NoneOf(type) ==
  /\ Count(users, type) = 0
  /\ \A c \in Callers : calls[c].pc = "idle" \/ calls[c].type # type

\* POST /api/camera/capture, the direct capture: neither 409 test applies (no
\* stream, pipeline not running), tryAcquireLock is called
CaptureRequest(k, e) ==
  /\ ~streamingActive
  /\ ~isRunning
  /\ TryAcquireLock(k, e)

\* RecorderController.startRecording() in camera mode, which the manager calls
\* between detector.start() and detector.stop(): acquireLock is called
RecorderStart(k) ==
  /\ Count(users, "auto-record") > 0
  /\ TryAcquireLock(k, RecorderLockS)

\* the lock is held under the recorder's lockTimeoutMs
HeldByRecorder(k) ==
  /\ lockers[k].pc = "holding"
  /\ lockFile.exists
  /\ lockFile.expiresAt - lockFile.createdAt = Max(RecorderLockS + CommandGraceS, MinExpiryS)

\* startRecording throws after acquireLock returned true (ensureUploadsDir, mkdir,
\* buildShmArgs or the spawn fails): the error leaves the function, which has no
\* catch or finally
RecorderStartThrows(k) ==
  /\ HeldByRecorder(k)
  /\ lockers' = [lockers EXCEPT ![k] = IdleLocker]
  /\ ret' = [who |-> k, op |-> "startRecording", val |-> "threw", t0 |-> now]
  /\ UNCHANGED <<busy, lockFile, now, overlap>>
  /\ UNCHANGED notLock

\* the holder of the lock spawns its camera command (rpicam-still, rpicam-vid)
CommandSpawn(k) ==
  /\ lockers[k].pc = "holding"
  /\ lockers' = [lockers EXCEPT ![k].pc = "camera"]
  /\ ret' = NoRet
  /\ UNCHANGED <<busy, lockFile, now, overlap>>
  /\ UNCHANGED notLock

\* the camera command closes; its owner calls releaseLock(): busy = false, the
\* unlink is issued
CommandClose(k) ==
  /\ lockers[k].pc = "camera"
  /\ busy' = FALSE
  /\ lockers' = [lockers EXCEPT ![k] = [IdleLocker EXCEPT !.pc = "releasing"]]
  /\ ret' = NoRet
  /\ Begins(k)
  /\ UNCHANGED <<lockFile, now>>
  /\ UNCHANGED notLock

\* a start route up to its await of isBusy(): POST /api/session/start (ctx 5)
\* answers 409 at once while a preview is streaming; isBusy returns true at once
\* when busy is set
StartRequest(k, ctx) ==
  /\ lockers[k].pc = "idle"
  /\ ~Booting
  /\ NoneOf(IF ctx = 5 THEN "session" ELSE "auto-record")
  /\ IF (ctx = 5 /\ streamingActive) \/ busy
       THEN /\ Refused(k, RouteOf(ctx))
            /\ UNCHANGED <<lockers, overlap>>
       ELSE /\ lockers' = [lockers EXCEPT ![k] = [IdleLocker EXCEPT !.pc = "access", !.ctx = ctx,
                                                               !.t0 = now]]
            /\ ret' = NoRet
            /\ Begins(k)
  /\ UNCHANGED <<busy, lockFile, now>>
  /\ UNCHANGED notLock

\* the route goes on after isBusy() returned false: startSession reaches
\* pipeline.retain('session', ...) with the running pipeline's configuration if
\* there is one, manager.start() reaches the detector's pipeline.retain('auto-record', ...)
StartRetain(k, c) ==
  /\ lockers[k].pc = "proceed"
  /\ IF lockers[k].ctx = 5
       THEN RetainBody(c, "session",
                       IF isRunning /\ pipelineConfig # NullCfg THEN pipelineConfig
                       ELSE SessionDefaults)
       ELSE RetainBody(c, "auto-record", SessionDefaults)
  /\ lockers' = [lockers EXCEPT ![k] = IdleLocker]
  /\ ret' = NoRet
  /\ UNCHANGED <<busy, lockFile, now, overlap>>
  /\ UNCHANGED <<sessVars, autoVars, termVars, streamVars, fileVars>>

\* GET /api/camera/stream.mjpeg up to its await of retain('preview', sourceConfig)
StreamRequest(c) == RetainCall(c, "preview", sourceConfig)

\* a consumer goes away: the cleanup of a preview, finishSession, detector.stop()
ConsumerGone(type) ==
  /\ Count(users, type) > 0
  /\ Release(type)

CamNext ==
  \/ \E k \in CamLockers, e \in ExpectedS : CaptureRequest(k, e)
  \/ \E k \in CamLockers : RecorderStart(k)
  \/ \E k \in CamLockers : RecorderStartThrows(k)
  \/ \E k \in CamLockers : CommandSpawn(k)
  \/ \E k \in CamLockers : CommandClose(k)
  \/ \E k \in CamLockers, ctx \in {5, 6} : StartRequest(k, ctx)
  \/ \E k \in CamLockers, c \in Callers : StartRetain(k, c)
  \/ \E c \in Callers : StreamRequest(c)
  \/ \E type \in {"preview", "session", "auto-record"} : ConsumerGone(type)
  \/ \E k \in CamLockers : Access(k)
  \/ \E k \in CamLockers : CleanupStat(k)
  \/ \E k \in CamLockers : WriteLockFile(k)
  \/ \E k \in CamLockers : WriteLockFailed(k)
  \/ \E k \in CamLockers : ReleaseUnlink(k)
  \/ Tick
  \/ \E c \in Callers : RetainResume(c)
  \/ \E c \in Callers : RetainRejected(c)
  \/ HealthCheck
  \/ RestartFire
  \/ \E p \in ProcIds : ProcExit(p)
  \/ \E p \in ProcIds : ProcClose(p)

\* ================================================================
\* ProcessManager.terminateProcess (src/src/session/tailParser.js)
\* ================================================================
\* the time the model follows
MaxClock == 7

\* setTimeout(..., 2000) and setTimeout(..., 5000), in seconds
TermDelayS == 2
KillDelayS == 5

\* session.record and session.inference
TermLabels == {"record", "inference"}

NoCall == [pc |-> "none", termTimer |-> FALSE, killTimer |-> FALSE, t0 |-> 0]

\* child.kill(sig): with the process still there the signal is delivered and
\* child.killed becomes true; after its exit kill returns false and changes nothing
kill(l, sig) ==
  IF tchild[l].st = "running"
    THEN /\ tchild' = [tchild EXCEPT ![l].killed = TRUE]
         /\ sent' = [sent EXCEPT ![l] = Append(@, sig)]
    ELSE UNCHANGED <<tchild, sent>>

\* terminateProcess(child, label, 'SIGINT'): returns at once for a child that is
\* killed or has an exit code; else listens for close, sends the signal and sets
\* the two timers
TerminateCall(l) ==
  /\ tcall[l].pc = "none"
  /\ clock + KillDelayS <= MaxClock
  /\ IF tchild[l].killed \/ tchild[l].st # "running"
       THEN /\ tcall' = [tcall EXCEPT ![l].pc = "returned"]
            /\ UNCHANGED <<tchild, sent>>
       ELSE /\ kill(l, "SIGINT")
            /\ tcall' = [tcall EXCEPT ![l] =
                 [pc |-> "waiting", termTimer |-> TRUE, killTimer |-> TRUE, t0 |-> clock]]
  /\ UNCHANGED clock
  /\ UNCHANGED notTerm

\* termTimer fires: if (!child.killed) child.kill('SIGTERM')
TermTimerFire(l) ==
  /\ tcall[l].termTimer
  /\ clock = tcall[l].t0 + TermDelayS
  /\ tcall' = [tcall EXCEPT ![l].termTimer = FALSE]
  /\ IF ~tchild[l].killed THEN kill(l, "SIGTERM") ELSE UNCHANGED <<tchild, sent>>
  /\ UNCHANGED clock
  /\ UNCHANGED notTerm

\* killTimer fires: if (!child.killed) child.kill('SIGKILL')
KillTimerFire(l) ==
  /\ tcall[l].killTimer
  /\ clock = tcall[l].t0 + KillDelayS
  /\ tcall' = [tcall EXCEPT ![l].killTimer = FALSE]
  /\ IF ~tchild[l].killed THEN kill(l, "SIGKILL") ELSE UNCHANGED <<tchild, sent>>
  /\ UNCHANGED clock
  /\ UNCHANGED notTerm

\* the subprocess exits, of itself or on a signal it obeys
TermExit(l) ==
  /\ tchild[l].st = "running"
  /\ tchild' = [tchild EXCEPT ![l].st = "exited"]
  /\ UNCHANGED <<tcall, sent, clock>>
  /\ UNCHANGED notTerm

\* 'close' of the subprocess: finalize, if a call listens, clears both timers and
\* resolves
TermClose(l) ==
  /\ tchild[l].st = "exited"
  /\ tchild' = [tchild EXCEPT ![l].st = "closed"]
  /\ tcall' = IF tcall[l].pc = "waiting"
                THEN [tcall EXCEPT ![l] = [pc |-> "resolved", termTimer |-> FALSE,
                                           killTimer |-> FALSE, t0 |-> tcall[l].t0]]
                ELSE tcall
  /\ UNCHANGED <<sent, clock>>
  /\ UNCHANGED notTerm

\* a second passes; a timer that is due fires first
ClockTick ==
  /\ clock < MaxClock
  /\ \A l \in TermLabels :
       /\ ~(tcall[l].termTimer /\ clock = tcall[l].t0 + TermDelayS)
       /\ ~(tcall[l].killTimer /\ clock = tcall[l].t0 + KillDelayS)
  /\ clock' = clock + 1
  /\ UNCHANGED <<tchild, tcall, sent>>
  /\ UNCHANGED notTerm

TermInit ==
  /\ tchild = [l \in TermLabels |-> [st |-> "running", killed |-> FALSE]]
  /\ tcall = [l \in TermLabels |-> NoCall]
  /\ sent = [l \in TermLabels |-> <<>>]
  /\ clock = 0

TermNext ==
  \/ \E l \in TermLabels : TerminateCall(l)
  \/ \E l \in TermLabels : TermTimerFire(l)
  \/ \E l \in TermLabels : KillTimerFire(l)
  \/ \E l \in TermLabels : TermExit(l)
  \/ \E l \in TermLabels : TermClose(l)
  \/ ClockTick

\* ================================================================
\* MJPEG stream routes and force-stop (src/server.js)
\* ================================================================
\* consumers attached in one behaviour
MaxConsumers == 2

ConsumerIds == 1..MaxConsumers

\* retain('preview', ...) of /api/camera/stream.mjpeg, retain('ai-preview', ...) of
\* /api/camera/stream.ai.mjpeg
StreamTypes == {"preview", "ai-preview"}

\* the reasons cleanup is called with from the request and the response
ClientEvents == {"client_disconnect", "response_close", "response_error"}

IdleHandler == [pc |-> "idle", type |-> "preview"]

\* att: the entry is in previewSessions / aiPreviewSessions; proc: the consumer's
\* process (failed: spawn failed, 'error' not yet emitted; exitCode is null only
\* while running); sig: SIGINT was sent; ended: res.writableEnded; fired: the events
\* that called cleanup; rel: the sharedPipeline.release calls made for this consumer
NoConsumer ==
  [type |-> "none", att |-> FALSE, proc |-> "none", sig |-> FALSE, ended |-> FALSE,
   fired |-> {}, rel |-> 0]

\* previewSessions / aiPreviewSessions as a set of ids
attachedOf(cons, type) == {id \in ConsumerIds : cons[id].att /\ cons[id].type = type}

\* previewSessions.size + aiPreviewSessions.size
attachedSize(cons) == Cardinality({id \in ConsumerIds : cons[id].att})

\* setStreamingState(active, clients)
setStreamingState(active, clients) ==
  [active |-> active,
   clients |-> IF active
                 THEN (LET n == IF clients = 0 THEN 1 ELSE clients
                       IN IF n > 1 THEN n ELSE 1)
                 ELSE 0]

\* this.users after n calls of release(type)
Released(u, type, n) ==
  IF n = 0 THEN u
  ELSE [WithClass(u, type) EXCEPT
          ![type] = IF Count(u, type) > n THEN Count(u, type) - n ELSE 0]

\* the continuation of a stream handler whose retain has resolved is queued
AttachPending == \E c \in Callers : handlers[c].pc = "await" /\ calls[c].pc = "idle"

\* a spawn has failed: child_process emits 'error' on the next tick
SpawnErrorPending == \E id \in ConsumerIds : consumers[id].proc = "failed"

\* nothing is queued: a request or an event is handled
Quiet == ~MicrotaskPending /\ ~AttachPending /\ ~SpawnErrorPending

\* GET /api/camera/stream.mjpeg and /api/camera/stream.ai.mjpeg up to the await of retain
StreamGet(c, type) ==
  /\ Quiet
  /\ handlers[c].pc = "idle"
  /\ type = "ai-preview" => attachedOf(consumers, "ai-preview") = {}
  /\ nextConsumer + Cardinality({d \in Callers : handlers[d].pc = "await"}) < MaxConsumers
  /\ RetainBody(c, type, sourceConfig)
  /\ handlers' = [handlers EXCEPT ![c] = [pc |-> "await", type |-> type]]
  /\ UNCHANGED <<consumers, nextConsumer, streamState>>
  /\ UNCHANGED notStream

\* retain rejected: res.status(err.status || 503)
StreamRejected(c) ==
  /\ handlers[c].pc = "await"
  /\ calls[c].pc = "rejected"
  /\ calls' = [calls EXCEPT ![c] = IdleCall]
  /\ handlers' = [handlers EXCEPT ![c] = IdleHandler]
  /\ UNCHANGED <<pipelineProc, pipelineConfig, lastConfig, starting, startChild, users,
                 restarting, restartWait, intentionalStop, procs, nextProc>>
  /\ UNCHANGED <<consumers, nextConsumer, streamState>>
  /\ UNCHANGED notStream

\* retain resolved: spawn the consumer's process (ok: the spawn succeeds), put it in
\* the map, setStreamingState(true, ...), register cleanup on the six events
StreamAttach(c, ok) ==
  /\ handlers[c].pc = "await"
  /\ calls[c].pc = "idle"
  /\ nextConsumer' = nextConsumer + 1
  /\ consumers' = [consumers EXCEPT ![nextConsumer + 1] =
       [NoConsumer EXCEPT !.type = handlers[c].type, !.att = TRUE,
                          !.proc = IF ok THEN "running" ELSE "failed"]]
  /\ streamState' = setStreamingState(TRUE, attachedSize(consumers'))
  /\ handlers' = [handlers EXCEPT ![c] = IdleHandler]
  /\ UNCHANGED pipeVars
  /\ UNCHANGED notStream

\* a cleanup that does not look for the consumer in the map first
cleanupAlways(id, cons) ==
  /\ consumers' = [cons EXCEPT ![id].att = FALSE,
                                ![id].rel = @ + 1,
                                ![id].sig = @ \/ cons[id].proc = "running",
                                ![id].ended = TRUE]
  /\ users' = Released(users, cons[id].type, 1)
  /\ maybeStop(users')
  /\ streamState' = setStreamingState(attachedSize(consumers') > 0,
                                      attachedSize(consumers'))

\* cleanup(reason) of consumer id, cons being the consumers with the event recorded
cleanup(id, cons) ==
  IF ~cons[id].att
    THEN /\ consumers' = cons
         /\ UNCHANGED <<users, intentionalStop, procs, streamState>>
    ELSE /\ consumers' = [cons EXCEPT ![id].att = FALSE,
                                      ![id].rel = @ + 1,
                                      ![id].sig = @ \/ cons[id].proc = "running",
                                      ![id].ended = TRUE]
         /\ users' = Released(users, cons[id].type, 1)
         /\ maybeStop(users')
         /\ streamState' = setStreamingState(attachedSize(consumers') > 0,
                                             attachedSize(consumers'))

\* what an event of a consumer leaves alone
EventFrame ==
  /\ UNCHANGED <<pipelineProc, pipelineConfig, lastConfig, starting, startChild,
                 restarting, restartWait, nextProc, calls>>
  /\ UNCHANGED <<handlers, nextConsumer>>
  /\ UNCHANGED notStream

\* req 'close', res 'close', res 'error'
ClientEvent(id, ev) ==
  /\ Quiet
  /\ consumers[id].type # "none"
  /\ ev \notin consumers[id].fired
  /\ cleanup(id, [consumers EXCEPT ![id].fired = @ \cup {ev}])
  /\ EventFrame

\* res 'finish', after res.end()
ResponseFinish(id) ==
  /\ Quiet
  /\ consumers[id].ended
  /\ "response_finish" \notin consumers[id].fired
  /\ cleanup(id, [consumers EXCEPT ![id].fired = @ \cup {"response_finish"}])
  /\ EventFrame

\* previewProc 'error' of a spawn that failed; the exit code is set by then
ConsumerError(id) ==
  /\ ~MicrotaskPending
  /\ ~AttachPending
  /\ consumers[id].proc = "failed"
  /\ cleanup(id, [consumers EXCEPT ![id].fired = @ \cup {"preview_error"},
                                   ![id].proc = "exited"])
  /\ EventFrame

\* the consumer's process ends, on its own or after SIGINT: exitCode is set
ConsumerExit(id) ==
  /\ Quiet
  /\ consumers[id].proc = "running"
  /\ consumers' = [consumers EXCEPT ![id].proc = "exited"]
  /\ UNCHANGED <<users, intentionalStop, procs, streamState>>
  /\ EventFrame

\* previewProc 'close'
ConsumerClose(id) ==
  /\ Quiet
  /\ consumers[id].proc = "exited"
  /\ cleanup(id, [consumers EXCEPT ![id].fired = @ \cup {"preview_close"},
                                   ![id].proc = "closed"])
  /\ EventFrame

\* a force-stop that leaves the entries in the maps
ForceStopKeep ==
  /\ Quiet
  /\ consumers' = [id \in ConsumerIds |->
       IF consumers[id].att
         THEN [consumers[id] EXCEPT !.rel = @ + 1,
                                    !.sig = @ \/ consumers[id].proc = "running",
                                    !.ended = TRUE]
         ELSE consumers[id]]
  /\ LET np == Cardinality(attachedOf(consumers, "preview"))
         na == Cardinality(attachedOf(consumers, "ai-preview"))
     IN /\ users' = Released(Released(users, "preview", np), "ai-preview", na)
        /\ IF np + na > 0 THEN maybeStop(users') ELSE UNCHANGED <<intentionalStop, procs>>
  /\ streamState' = setStreamingState(attachedSize(consumers') > 0, attachedSize(consumers'))
  /\ EventFrame

\* POST /api/camera/stream/stop
ForceStop ==
  /\ Quiet
  /\ consumers' = [id \in ConsumerIds |->
       IF consumers[id].att
         THEN [consumers[id] EXCEPT !.att = FALSE,
                                    !.rel = @ + 1,
                                    !.sig = @ \/ consumers[id].proc = "running",
                                    !.ended = TRUE]
         ELSE consumers[id]]
  /\ LET np == Cardinality(attachedOf(consumers, "preview"))
         na == Cardinality(attachedOf(consumers, "ai-preview"))
     IN /\ users' = Released(Released(users, "preview", np), "ai-preview", na)
        /\ IF np + na > 0 THEN maybeStop(users') ELSE UNCHANGED <<intentionalStop, procs>>
  /\ streamState' = setStreamingState(attachedSize(consumers') > 0, attachedSize(consumers'))
  /\ EventFrame

StreamInit ==
  /\ handlers = [c \in Callers |-> IdleHandler]
  /\ consumers = [id \in ConsumerIds |-> NoConsumer]
  /\ nextConsumer = 0
  /\ streamState = [active |-> FALSE, clients |-> 0]

\* the routes with the pipeline up to the exit of its process; its close handler and
\* its restarts are followed in SpecPipeline
StreamNext ==
  \/ \E c \in Callers, type \in StreamTypes : StreamGet(c, type)
  \/ \E c \in Callers : StreamRejected(c)
  \/ \E c \in Callers, ok \in BOOLEAN : StreamAttach(c, ok)
  \/ \E id \in ConsumerIds, ev \in ClientEvents : ClientEvent(id, ev)
  \/ \E id \in ConsumerIds : ResponseFinish(id)
  \/ \E id \in ConsumerIds : ConsumerError(id)
  \/ \E id \in ConsumerIds : ConsumerExit(id)
  \/ \E id \in ConsumerIds : ConsumerClose(id)
  \/ ForceStop
  \/ \E c \in Callers : RetainResume(c)
  \/ HealthCheck
  \/ \E p \in ProcIds : ProcExit(p)

\* ---- ProcessManager with its files: one session, every write and unlink an event ----
\* the promises finishSession leaves behind with a catch attached: writeState,
\* releaseLock, finalizeVideo (which also catches inside) and onSessionFinished
HandledButCallback == {"writeState", "releaseLock", "finalizeVideo"}

Handled == {"writeState", "releaseLock", "finalizeVideo", "onSessionFinished"}

\* a promise nobody awaits settles: a rejection without a catch is an unhandled
\* rejection in the turn of whoever ran finishSession
settle(p, promise, ok) ==
  IF ok \/ promise \in Handled THEN p ELSE [p EXCEPT !.unhandled = TRUE]

\* the manager before startSession
NoSessionYet ==
  [pc |-> "idle", currentSession |-> FALSE, status |-> "none", stopRequested |-> FALSE,
   retained |-> FALSE, users |-> 0, releases |-> 0, lockFile |-> FALSE,
   stateFile |-> "absent", writes |-> {}, unlink |-> FALSE, rename |-> FALSE,
   callback |-> FALSE, video |-> "part",
   kids |-> [l \in Labels |-> "none"], killed |-> [l \in Labels |-> FALSE],
   codes |-> [l \in Labels |-> 0], exits |-> {},
   stop |-> "idle", waiting |-> {},
   finPc |-> "none", unlinkFailed |-> FALSE, writeFailed |-> FALSE, unhandled |-> FALSE]

\* pipeline.release('session'): users.session = Math.max(0, users.session - 1)
releaseF(p) == [p EXCEPT !.users = Max(0, @ - 1), !.releases = @ + 1]

\* writeState(session): the payload is built at the call, the write is in flight
writeState(p, by) == [p EXCEPT !.writes = @ \cup {[by |-> by, val |-> p.status]}]

\* the writes of the state record there can be: who issued it, the status it carries
Writes == [by : {"start1", "start2", "finish"}, val : {"running", "stopped", "failed"}]

\* finishSession(session, status) with each side effect it issues
finishSessionF(p, status) ==
  IF p.status # "running" THEN p
  ELSE releaseF([writeState([p EXCEPT !.status = status], "finish")
                   EXCEPT !.unlink = TRUE, !.rename = TRUE, !.callback = TRUE,
                          !.finPc = p.pc])

\* terminateProcess(child, label, 'SIGINT') up to the kill
terminateProcessF(p, l) ==
  IF p.kids[l] # "alive" \/ p.killed[l] THEN p ELSE [p EXCEPT !.killed[l] = TRUE]

\* maybeFinalize(session)
maybeFinalizeF(p) ==
  IF p.status = "running" /\ p.exits = Labels THEN finishSessionF(p, "stopped") ELSE p

\* onProcessExit(session, label, code, signal)
onProcessExitF(p, l) ==
  IF p.status # "running" THEN maybeFinalizeF(p)
  ELSE IF ~p.stopRequested /\ p.codes[l] # 0
    THEN terminateProcessF(finishSessionF(p, "failed"), other(l))
  ELSE maybeFinalizeF(IF ~p.stopRequested
                        THEN terminateProcessF([p EXCEPT !.stopRequested = TRUE], other(l))
                        ELSE p)

\* the catch block of startSession up to its await of releaseLock
catchF(p) ==
  [(IF p.retained THEN releaseF(p) ELSE p) EXCEPT !.pc = "catch"]

\* getStatus(jobId): the session in memory, else the state record on disk
getStatus ==
  IF pm.currentSession THEN pm.status
  ELSE IF pm.stateFile = "absent" THEN "null" ELSE pm.stateFile

\* startSession through acquireLock (no lock file, no session running): the lock
\* file is created, the session becomes currentSession, writeState is awaited
FStartSession ==
  /\ pm.pc = "idle"
  /\ pm' = [writeState([pm EXCEPT !.lockFile = TRUE, !.currentSession = TRUE,
                                  !.status = "running"], "start1")
              EXCEPT !.pc = "writeState1"]
  /\ UNCHANGED notFile

\* a writeState in flight settles.  The first one of startSession is awaited
\* outside its try; the second inside; the one of finishSession has a catch
FWriteDone(w, ok) ==
  /\ w \in pm.writes
  /\ LET p0 == [pm EXCEPT !.writes = @ \ {w},
                          !.stateFile = IF ok THEN w.val ELSE @,
                          !.writeFailed = @ \/ ~ok]
     IN pm' = CASE w.by = "start1" ->
                     [p0 EXCEPT !.pc = IF ok THEN "retain" ELSE "threw"]
                 [] w.by = "start2" ->
                     IF ok THEN [p0 EXCEPT !.pc = "returned"] ELSE catchF(p0)
                 [] OTHER -> settle(p0, "writeState", ok)
  /\ UNCHANGED notFile

\* pipeline.retain('session') settles, and then the argument builders run.
\* Resolved and built: both subprocesses are spawned and writeLock is awaited
FRetainSettled(how) ==
  /\ pm.pc = "retain"
  /\ pm' = CASE how = "rejected" -> catchF(pm)
             [] how = "noBuilder" ->
                  catchF([pm EXCEPT !.retained = TRUE, !.users = @ + 1])
             [] OTHER ->
                  [pm EXCEPT !.retained = TRUE, !.users = @ + 1,
                             !.kids = [l \in Labels |-> "alive"],
                             !.pc = "writeLock"]
  /\ UNCHANGED notFile

\* writeLock settles (its failure is logged); the second writeState is awaited
FWriteLockDone(ok) ==
  /\ pm.pc = "writeLock"
  /\ pm' = [writeState([pm EXCEPT !.lockFile = @ \/ ok], "start2")
              EXCEPT !.pc = "writeState2"]
  /\ UNCHANGED notFile

\* the releaseLock of the catch block settles: currentSession = null; throw err
FCatchDone(ok) ==
  /\ pm.pc = "catch"
  /\ pm' = [pm EXCEPT !.lockFile = IF ok THEN FALSE ELSE @,
                      !.currentSession = FALSE,
                      !.pc = "threw"]
  /\ UNCHANGED notFile

\* stopSession(jobId, reason) for the current session
FStopSession ==
  /\ pm.currentSession
  /\ pm.stop = "idle"
  /\ IF pm.status # "running"
       THEN pm' = [pm EXCEPT !.stop = "returned"]
       ELSE LET waiting == {l \in Labels : pm.kids[l] = "alive" /\ ~pm.killed[l]}
                p1 == terminateProcessF(
                        terminateProcessF([pm EXCEPT !.stopRequested = TRUE], "record"),
                        "inference")
            IN pm' = IF waiting = {}
                       THEN [finishSessionF(p1, "stopped") EXCEPT !.stop = "returned"]
                       ELSE [p1 EXCEPT !.stop = "waiting", !.waiting = waiting]
  /\ UNCHANGED notFile

\* a subprocess ends with an exit code
FChildExit(l, code) ==
  /\ pm.kids[l] = "alive"
  /\ pm' = [pm EXCEPT !.kids[l] = "exited", !.codes[l] = code]
  /\ UNCHANGED notFile

\* child.on('error'): the spawn failed
FChildError(l) ==
  /\ pm.kids[l] = "alive"
  /\ ~pm.killed[l]
  /\ pm' = finishSessionF([pm EXCEPT !.kids[l] = "exited", !.codes[l] = SpawnErrCode],
                          "failed")
  /\ UNCHANGED notFile

\* child.on('close'): onProcessExit, then a stopSession waiting for it goes on
FChildClose(l) ==
  /\ pm.kids[l] = "exited"
  /\ LET p1 == onProcessExitF([pm EXCEPT !.kids[l] = "closed", !.exits = @ \cup {l}], l)
     IN pm' = IF p1.stop = "waiting" /\ p1.waiting \ {l} = {}
                THEN [finishSessionF(p1, "stopped") EXCEPT !.stop = "returned",
                                                           !.waiting = {}]
                ELSE [p1 EXCEPT !.waiting = @ \ {l}]
  /\ UNCHANGED notFile

\* the unlink of finishSession's releaseLock settles
FUnlinkDone(ok) ==
  /\ pm.unlink
  /\ pm' = settle([pm EXCEPT !.unlink = FALSE,
                             !.lockFile = IF ok THEN FALSE ELSE @,
                             !.unlinkFailed = @ \/ ~ok], "releaseLock", ok)
  /\ UNCHANGED notFile

\* the rename of finalizeVideo settles
FRenameDone(ok) ==
  /\ pm.rename
  /\ pm' = settle([pm EXCEPT !.rename = FALSE,
                             !.video = IF ok THEN "final" ELSE @], "finalizeVideo", ok)
  /\ UNCHANGED notFile

\* the promise of onSessionFinished settles
FCallbackDone(ok) ==
  /\ pm.callback
  /\ pm' = settle([pm EXCEPT !.callback = FALSE], "onSessionFinished", ok)
  /\ UNCHANGED notFile

FileInit == pm = NoSessionYet

FileNext ==
  \/ FStartSession
  \/ \E w \in Writes, ok \in BOOLEAN : FWriteDone(w, ok)
  \/ \E how \in {"resolved", "rejected", "noBuilder"} : FRetainSettled(how)
  \/ \E ok \in BOOLEAN : FWriteLockDone(ok)
  \/ \E ok \in BOOLEAN : FCatchDone(ok)
  \/ FStopSession
  \/ \E l \in Labels, code \in {0, 1} : FChildExit(l, code)
  \/ \E l \in Labels : FChildError(l)
  \/ \E l \in Labels : FChildClose(l)
  \/ \E ok \in BOOLEAN : FUnlinkDone(ok)
  \/ \E ok \in BOOLEAN : FRenameDone(ok)
  \/ \E ok \in BOOLEAN : FCallbackDone(ok)

\* server.js constructs the manager without pauseDetectorDuringRecording
Init ==
  PipeInit /\ LockInit({NoFile}) /\ SessInit /\ AutoInit({FALSE}) /\ TermInit /\ StreamInit /\ FileInit

\* the manager with either setting of the option
InitAuto ==
  PipeInit /\ LockInit({NoFile}) /\ SessInit /\ AutoInit(BOOLEAN) /\ TermInit /\ StreamInit /\ FileInit

SpecPipeline == Init /\ [][PipeNext]_vars

SpecLock == Init /\ [][LockNext]_vars

\* the camera lock of a server started with a lock file of a previous run on disk
InitLeftover ==
  PipeInit /\ LockInit(Leftovers) /\ SessInit /\ AutoInit({FALSE}) /\ TermInit /\ StreamInit /\ FileInit
SpecLockLeftover == InitLeftover /\ [][LockNext]_vars

SpecCamera == Init /\ [][CamNext]_vars

SpecTerminate == Init /\ [][TermNext]_vars

\* a subprocess that ignores SIGINT and SIGTERM ends once SIGKILL has been delivered
KilledExit(l) ==
  /\ \E i \in 1..Len(sent[l]) : sent[l][i] = "SIGKILL"
  /\ TermExit(l)

\* timers that are due fire, time passes, SIGKILL ends a process, and a process that
\* has exited closes
TermFair ==
  /\ WF_vars(ClockTick)
  /\ \A l \in TermLabels :
       /\ WF_vars(TermTimerFire(l))
       /\ WF_vars(KillTimerFire(l))
       /\ WF_vars(KilledExit(l))
       /\ WF_vars(TermClose(l))

SpecTerminateFair == Init /\ [][TermNext]_vars /\ TermFair

SpecStream == Init /\ [][StreamNext]_vars

SpecSession == Init /\ [][SessNext]_vars

SpecAuto == InitAuto /\ [][AutoNext]_vars

\* getLatestFrame() resolves while the subject stays away during a recording: no
\* frame, or a new frame without a qualifying person
FrameArriveAbsent(frame) ==
  /\ ar.state = "recording" =>
       \/ frame = NullFrame
       \/ findPerson(frame.detections) = NoBox /\ frame.t # ar.lastFrameTs
  /\ FrameArrive(frame)

\* the manager left to itself: no stop() call, the subject away during recordings
AutoNextAbsent ==
  \/ StartCall
  \/ StartRejected
  \/ \E ok \in BOOLEAN : StartSettled(ok)
  \/ \E which \in {"poll", "stray"} : TimerFire(which)
  \/ \E frame \in Frames \cup {NullFrame} : FrameArriveAbsent(frame)
  \/ \E ok \in BOOLEAN : RecStartSettled(ok)
  \/ \E ok \in BOOLEAN : RecorderClose(ok)

\* every promise of start() settles; a poll timer that is due fires and
\* getLatestFrame settles however often start() is called in between; the recorder
\* settles its start and closes once it has been told to stop
AutoFair ==
  /\ WF_vars(StartRejected)
  /\ WF_vars(\E ok \in BOOLEAN : StartSettled(ok))
  /\ SF_vars(\E which \in {"poll", "stray"} : TimerFire(which))
  /\ SF_vars(\E frame \in Frames \cup {NullFrame} : FrameArriveAbsent(frame))
  /\ WF_vars(\E ok \in BOOLEAN : RecStartSettled(ok))
  /\ WF_vars(rec.stopping /\ \E ok \in BOOLEAN : RecorderClose(ok))

SpecAutoFair == InitAuto /\ [][AutoNextAbsent]_vars /\ AutoFair

\* ----------------------------------------------------------------
\* Claims about SharedPipeline
\* ----------------------------------------------------------------

\* No start, stop, restart or retain is pending: no health check is awaited, no
\* restart is scheduled or running, no retain call is suspended, and no process
\* has been signalled or has exited without its close event having been handled.
PipeAtRest ==
  /\ ~starting
  /\ ~restarting
  /\ \A c \in Callers : calls[c].pc = "idle"
  /\ \A p \in ProcIds : procs[p].st # "exited" /\ ~(procs[p].st = "alive" /\ procs[p].sig)

\* C1: once no start, stop or restart is pending, the pipeline process is running
\* if and only if the sum of all reference counts is greater than zero.
C1_RunningIffRetained == PipeAtRest => (isRunning <=> Total(users) > 0)

\* the two configurations differ in width, height or fps
Differs(a, b) == a.width # b.width \/ a.height # b.height \/ a.fps # b.fps

AllClasses == Classes \cup ConstructorClasses

\* C10: a retain that asks a running pipeline for a different width, height or fps
\* is rejected with the 409 conflict, and neither that call nor the delivery of its
\* error changes the pipeline process, the active configuration or any count.
C10_ConflictRejected ==
  [][\A c \in Callers :
       /\ ( /\ calls[c].pc = "idle"
            /\ calls'[c].pc # "idle"
            /\ isRunning
            /\ Differs(pipelineConfig, calls'[c].cfg) )
          => /\ calls'[c].pc = "rejected"
             /\ calls'[c].err = "conflict"
             /\ pipelineProc' = pipelineProc
             /\ procs' = procs
             /\ pipelineConfig' = pipelineConfig
             /\ \A t \in AllClasses : Count(users', t) = Count(users, t)
       /\ ( calls[c].pc = "rejected" /\ calls'[c].pc = "idle" )
          => /\ pipelineProc' = pipelineProc
             /\ procs' = procs
             /\ pipelineConfig' = pipelineConfig
             /\ \A t \in AllClasses : Count(users', t) = Count(users, t)
    ]_vars

\* a pipeline running at 1280x720@30 with a consumer has just rejected 640x480@15
C10_Witness ==
  \E c \in Callers :
    /\ calls[c].pc = "rejected"
    /\ calls[c].err = "conflict"
    /\ calls[c].cfg = [width |-> 640, height |-> 480, fps |-> 15]
    /\ isRunning
    /\ pipelineConfig = [width |-> 1280, height |-> 720, fps |-> 30]
    /\ Total(users) > 0

\* ----------------------------------------------------------------
\* Claims about the camera lock
\* ----------------------------------------------------------------

\* the callers that received true from tryAcquireLock and have not called releaseLock
Holders == {k \in Lockers : lockers[k].pc = "holding"}

\* C2: two callers never hold the camera lock at the same time.
C2_MutualExclusion == Cardinality(Holders) <= 1

\* the callers other than k that hold the lock they acquired, its expiry not yet passed
HoldingBeside(k) ==
  {a \in Lockers \ {k} : lockers[a].pc = "holding" /\ now <= lockers[a].expiresAt}

\* POST /api/camera/capture and RecorderController.startRecording answer a refused
\* lock with status 409
HttpConflict == 409
captureStatus(acquired) == IF acquired = "false" THEN HttpConflict ELSE 0

\* C11: when calls of the lock functions do not overlap: while a caller A holds the
\* lock it acquired, before A's releaseLock and before the lock's expiry, a
\* tryAcquireLock of any other caller returns false (it does not throw), which the
\* capture request answers with 409, and isBusy returns true; and a tryAcquireLock
\* made when every earlier holder has completed its releaseLock returns true (or
\* fails on the write itself), never false.
C11_LockContention ==
  (ret # NoRet /\ ~overlap) =>
    /\ HoldingBeside(ret.who) # {} =>
         /\ ret.op = "tryAcquireLock" =>
              ret.val = "false" /\ captureStatus(ret.val) = HttpConflict
         /\ ret.op = "isBusy" => ret.val = "true"
    /\ (ret.op = "tryAcquireLock" /\ \A a \in Lockers \ {ret.who} : lockers[a].pc = "idle")
         => ret.val \in {"true", "threw"}

\* The expiry of a lock record by the staleness rule: its expiresAt field; createdAt
\* plus the fallback TTL when that field is absent or unparseable; the file's mtime
\* plus the fallback TTL when the record itself is unparseable.
ruleExpiry(f) ==
  IF f.form # "json" THEN f.mtime + FallbackTtlS
  ELSE IF f.expKind = "num" THEN f.expiresAt
  ELSE f.createdAt + FallbackTtlS

\* C12: a lock record whose expiry had passed when a call of isBusy, tryAcquireLock
\* or cleanupStaleLock began is gone when that call returns (calls not overlapping),
\* whatever the busy flag and whichever basis gives the expiry.
C12_StaleLockRemoved ==
  (ret # NoRet /\ ~overlap /\ lockFile.exists) => ~(ret.t0 > ruleExpiry(lockFile))

\* the same for the records whose expiresAt is a number, when busy is not set
C12_NumericNotBusy ==
  (ret # NoRet /\ ~overlap /\ lockFile.exists /\ lockFile.expKind # "nan" /\ ~busy)
    => ~(ret.t0 > ruleExpiry(lockFile))

\* B's tryAcquireLock has just returned false while A holds an unexpired lock
C11_Witness ==
  /\ ~overlap
  /\ ret.op = "tryAcquireLock" /\ ret.val = "false"
  /\ HoldingBeside(ret.who) # {}


\* ---------------- ProcessManager claims ----------------
BothClosed(j) == \A l \in Labels : children[j][l].st = "closed"
Spawned(j) == \A l \in Labels : children[j][l].st # "none"

\* C3: for every session, the finalization step (the body of finishSession) runs
\* at most once whatever mix of close events, error events, failSession and
\* stopSession calls occurs, and it has run once both subprocesses have closed.
C3_FinalizedExactlyOnce ==
  \A j \in Jobs :
    /\ finCount[j] <= 1
    /\ BothClosed(j) => finCount[j] = 1

\* a session that failed and whose two subprocesses have both closed since
C3_Witness ==
  \E j \in Jobs :
    /\ BothClosed(j)
    /\ session[j].exits = Labels
    /\ session[j].status = "failed"
    /\ finCount[j] = 1

\* C4: the finalization step of a session whose subprocesses were spawned is taken
\* only when both the record and the inference subprocess have closed.
C4_FinalizedAfterBothClosed ==
  [][\A j \in Jobs :
       (finCount'[j] > finCount[j] /\ Spawned(j)) => \A l \in Labels : children'[j][l].st = "closed"]_vars

\* C5: at most one session whose startSession did not throw has status running.
RunningSessions ==
  {j \in Jobs : session[j].status = "running" /\ starts[j] \notin {"failUnlink", "threw"}}

C5_AtMostOneRunning == Cardinality(RunningSessions) <= 1

\* C6: when a subprocess of a running session closes with a non-zero code while its
\* sibling is still running and no stop was requested, the session becomes failed,
\* its errorMessage names the label that exited, and the sibling is sent SIGINT.
C6_FailurePropagates ==
  [][\A j \in Jobs, l \in Labels, m \in Labels :
       ( /\ m # l
         /\ children[j][l].st = "exited"
         /\ children'[j][l].st = "closed"
         /\ children[j][l].code # 0
         /\ session[j].status = "running"
         /\ ~session[j].stopRequested
         /\ children[j][m].st = "alive" )
       => /\ session'[j].status = "failed"
          /\ session'[j].errorMessage = [kind |-> "exit", label |-> l]
          /\ ~children[j][m].killed
          /\ children'[j][m].killed
          /\ children'[j][m].sig = "SIGINT"]_vars

\* record closed with code 1 first; the session failed and inference, still
\* running, has been signalled
C6_Witness ==
  \E j \in Jobs :
    /\ session[j].status = "failed"
    /\ session[j].errorMessage = [kind |-> "exit", label |-> "record"]
    /\ session[j].exits = {"record"}
    /\ children[j]["inference"].st = "alive"
    /\ children[j]["inference"].sig = "SIGINT"

\* ---------------- AutoRecordManager claims ----------------
\* C7: in a cycle with no stop() call, no rejection and no recorder exit of its own:
\* a person frame that completes AddressStillMs of in-tolerance detections takes
\* arming to addressLocked with one startRecording call; recording is entered from
\* addressLocked with startRecording called exactly once; the poll that brings the
\* misses to SwingEndMissingFrames starts the stop sequence with one stopRecording
\* call; and the machine returns to idle with startRecording and stopRecording each
\* called exactly once, the recorder not recording and the detector stopped.
C7_FullCycle ==
  [][/\ ( /\ ar.state = "arming" /\ ~disturbed'
          /\ ar'.lastFrameTs # ar.lastFrameTs
          /\ win'.ref # NoBox
          /\ ar'.lastFrameTs - win'.start >= AddressStillMs )
        => /\ ar'.state = "addressLocked"
           /\ "trans" \in tasks'
           /\ recCalls'.startRec = 1
     /\ (ar.state # "recording" /\ ar'.state = "recording" /\ ~disturbed')
        => /\ ar.state = "addressLocked"
           /\ rec'.process
           /\ recCalls' = [startRec |-> 1, stopRec |-> 0]
     /\ ( /\ ar.state = "recording" /\ ~disturbed'
          /\ ar'.missingPersonFrames >= SwingEndMissingFrames )
        => /\ ar'.state = "stopping"
           /\ "stopseq" \in tasks'
           /\ recCalls'.stopRec = 1
     /\ (ar.state \in ActiveStates /\ ar'.state = "idle" /\ ~disturbed')
        => /\ ar.state = "stopping"
           /\ recCalls' = [startRec |-> 1, stopRec |-> 1]
           /\ ~rec'.process
           /\ ~detRunning']_vars

\* the machine is back in idle after one undisturbed cycle
C7_Witness ==
  /\ ~disturbed
  /\ ar.state = "idle"
  /\ startFrom = "idle"
  /\ recCalls = [startRec |-> 1, stopRec |-> 1]
  /\ ~rec.process
  /\ ~detRunning

\* C8: start() is accepted only in idle or failed; once the detector has started it
\* ends in arming with lastError cleared; a start() in an active state gets the 409
\* and changes neither the state, nor the timers, nor any session field.
C8_StartContract ==
  [][/\ ("start" \notin tasks /\ "start" \in tasks') => ar.state \in {"idle", "failed"}
     /\ ("start" \in tasks /\ "start" \notin tasks')
        => \/ ar'.state = "arming" /\ ar'.lastError = "none" /\ ar'.pollArmed /\ detRunning'
           \/ ar' = ar /\ disturbed'
     /\ ("rejected409" \notin tasks /\ "rejected409" \in tasks')
        => /\ ar.state \in ActiveStates
           /\ UNCHANGED <<ar, strayTimers, inFlight, detRunning, rec, recCalls, win,
                          startFrom, disturbed>>]_vars

\* a start() called in failed has put the machine in arming with the error cleared
C8_Witness ==
  /\ startFrom = "failed"
  /\ "start" \notin tasks
  /\ ar.state = "arming"
  /\ ar.lastError = "none"
  /\ disturbed

C13_StopEndsIdle ==
  [][/\ (stopped' /\ ~stopped) => (ar'.state = "idle" /\ ~isRecording(rec') /\ ~detRunning')
     /\ stopped => (ar'.state = "idle" /\ (isRecording(rec') => isRecording(rec)))]_vars

\* C14: when detector.start() rejects during start(), the call ends with the state
\* failed and lastError set to the message of that error, and start() does not
\* reject towards its caller.
C14_StartErrorConverted ==
  [][("start" \in tasks /\ "start" \notin tasks' /\ ~detRunning')
       => /\ ar'.state = "failed"
          /\ ar'.lastError = "detector start"
          /\ "rejected" \notin tasks']_vars

\* C15: when the stop sequence records the error of a rejected
\* recorder.stopRecording(), the machine is left in failed with that message; when
\* recorder.startRecording() rejects in addressLocked, the machine is left in failed
\* with that message; and failed is only left through a start() call (or a stop()
\* call, which clears the poll handle and resets the state).
C15_FailureEndsFailed ==
  [][/\ ("stopseq" \in tasks /\ "stopseq" \notin tasks'
           /\ ar.lastError # "recorder stop" /\ ar'.lastError = "recorder stop")
         => ar'.state = "failed"
     /\ ("trans" \in tasks /\ "trans" \notin tasks' /\ ar.state = "addressLocked"
           /\ ~isRecording(rec'))
         => (ar'.state = "failed" /\ ar'.lastError = "recorder start")
     /\ (ar.state = "failed" /\ ar'.state # "failed")
         => ("start" \in tasks \/ disturbed')]_vars

\* C16: the status of a session only moves forward: from running it changes at most
\* once, to stopped or failed, and once it is stopped or failed its status, stoppedAt
\* and errorMessage stay as they are whatever close, error or stop events follow.
C16_StatusForwardOnly ==
  [][\A j \in Jobs :
       /\ session[j].status = "none" => session'[j].status \in {"none", "running"}
       /\ session[j].status = "running"
            => session'[j].status \in {"running", "stopped", "failed"}
       /\ session[j].status \in {"stopped", "failed"}
            => /\ session'[j].status = session[j].status
               /\ session'[j].stoppedAt = session[j].stoppedAt
               /\ session'[j].errorMessage = session[j].errorMessage]_vars

\* a session stopped on request whose two subprocesses have closed, with the stamp
\* of its one finishSession run and no error message
C16_Witness ==
  \E j \in Jobs :
    /\ session[j].status = "stopped"
    /\ session[j].stopRequested
    /\ session[j].stoppedAt = 1
    /\ session[j].errorMessage = NoMsg
    /\ BothClosed(j)

\* ---------------- camera claims ----------------
\* a camera command run by the holder of the capture lock
DirectCommands == {k \in CamLockers : lockers[k].pc = "camera"}

\* C17: a direct camera command run under the capture lock never runs while the
\* shared pipeline process is running, and the shared pipeline is never started
\* while such a lock holder is using the device
C17_CameraExclusive == ~(DirectCommands # {} /\ isRunning)

\* C18: with a preview attached, the shared pipeline running and the capture lock
\* free, POST /api/session/start is not refused: it goes on to start the session
C18_SessionBesidePreview ==
  [][\A k \in CamLockers :
       (/\ streamingActive
        /\ isRunning
        /\ ~busy
        /\ ~lockFile.exists
        /\ StartRequest(k, 5)) => ret'.val # "409"]_vars

\* ---------------- terminateProcess claims ----------------
\* C19: for each subprocess, SIGINT is sent first; if the subprocess has not exited
\* when the 2 s timer fires SIGTERM is sent; if it has still not exited when the 5 s
\* timer fires SIGKILL is sent; no signal is sent after the subprocess has closed
C19_Escalation ==
  [][\A l \in TermLabels :
       /\ (sent[l] = <<>> /\ sent'[l] # <<>>) => sent'[l] = <<"SIGINT">>
       /\ (tcall[l].termTimer /\ ~tcall'[l].termTimer /\ tchild[l].st = "running")
            => sent'[l] = Append(sent[l], "SIGTERM")
       /\ (tcall[l].killTimer /\ ~tcall'[l].killTimer /\ tchild[l].st = "running")
            => sent'[l] = Append(sent[l], "SIGKILL")
       /\ tchild[l].st = "closed" => sent'[l] = sent[l]]_vars

\* ---------------- poll loop claims ----------------
\* the poll timers pending: the one pollHandle refers to, and those it has lost
PollTimers == (IF ar.pollArmed THEN 1 ELSE 0) + strayTimers

\* C20: at any time at most one detector.getLatestFrame() call is in flight and at
\* most one poll timer is pending, whatever the interleaving of ticks with start()
\* and stop()
C20_OnePollChain == inFlight <= 1 /\ PollTimers <= 1

\* ---------------- detection-stability claims ----------------
\* C21: the detection-stability fields (stableRefBox, stableStartTs) are null in
\* every state other than arming: they are reset when a processed frame has no
\* qualifying person and when the machine leaves arming
C21_StabilityReset ==
  ar.state # "arming" => (ar.stableRefBox = NoBox /\ ar.stableStartTs = NullTs)

\* ---------------- pipeline restart claims ----------------
\* the close event of pipeline process p is handled in this step
Closes(p) == procs[p].st = "exited" /\ procs'[p].st = "closed"

\* the start made by the restart timer passes its health check in this step
RestartHealthy ==
  /\ starting /\ ~starting'
  /\ restartWait = "start"
  /\ procs[startChild].st = "alive"

\* C22: when the pipeline process closes without a stop having been requested,
\* with a total reference count > 0 and no start or restart in flight, one restart
\* is scheduled; the restart timer starts the pipeline with the last known
\* configuration, and after a healthy restart the pipeline is running with that
\* configuration; the exit of a process stopped by stopPipeline schedules no restart
C22_UnexpectedExitRestarts ==
  [][/\ \A p \in ProcIds :
          /\ (Closes(p) /\ ~intentionalStop /\ Total(users) > 0 /\ ~starting /\ ~restarting)
               => (restarting' /\ restartWait' = "timer")
          /\ (Closes(p) /\ procs[p].sig)
               => (restarting' = restarting /\ restartWait' = restartWait)
     /\ (restartWait = "timer" /\ restartWait' = "start" /\ ~starting /\ starting')
          => (pipelineConfig' = lastConfig /\ lastConfig' = lastConfig)
     /\ RestartHealthy => (isRunning' /\ pipelineConfig' = lastConfig)]_vars

\* C23: a restart whose timer fires with a total reference count of zero leaves no
\* pipeline process running: when the start it made completes with the count still
\* zero, the process has been told to stop
C23_RestartGuard ==
  [][(RestartHealthy /\ Total(users') = 0) => procs'[startChild].sig]_vars

\* ---------------- in-flight start claims ----------------
\* retain call c arrives in this step
Arrives(c) == calls[c].pc = "idle" /\ calls'[c].pc # "idle"

\* the retain calls awaiting the start in flight, and those of one class
Awaiting == {c \in Callers : calls[c].pc = "awaitStart"}
AwaitingOf(type) == {c \in Awaiting : calls[c].type = type}

\* C24: a retain that arrives while a start is in flight spawns no process and
\* waits for the outcome of that start; when the start passes its health check
\* each waiting retain adds one to its class count, and when it fails each waiting
\* retain fails and no count changes
C24_StartShared ==
  [][/\ \A c \in Callers :
          (Arrives(c) /\ starting) => (nextProc' = nextProc /\ calls'[c].pc = "awaitStart")
     /\ (starting /\ ~starting' /\ procs[startChild].st = "alive")
          => /\ \A c \in Awaiting : calls'[c].pc = "idle"
             /\ \A t \in AllClasses :
                  Count(users', t) = Count(users, t) + Cardinality(AwaitingOf(t))
     /\ (starting /\ ~starting' /\ procs[startChild].st # "alive")
          => /\ \A c \in Awaiting : calls'[c].pc = "rejected"
             /\ \A t \in AllClasses : Count(users', t) = Count(users, t)]_vars

\* ---------------- startup health check claims ----------------
\* the start in flight fails its health check in this step
HealthFails == starting /\ ~starting' /\ procs[startChild].st # "alive"

\* C25 as stated: when the spawned process has exited by the end of the health
\* check window, the retain that started it fails with the 409 'device busy', no
\* count is incremented, isRunning() is false and getConfig() is null
C25_HealthFailure ==
  [][HealthFails =>
       /\ \A c \in Awaiting : calls'[c].pc = "rejected" /\ calls'[c].err = "busy"
       /\ \A t \in AllClasses : Count(users', t) = Count(users, t)
       /\ ~isRunning'
       /\ pipelineConfig' = NullCfg]_vars

\* C25 amended: the retain fails with the 409 'device busy', no count is
\* incremented and isRunning() is false at once; getConfig() is null once the
\* close event of the process has been handled, which sets it to null
C25_HealthFailureAmended ==
  [][/\ HealthFails =>
          /\ \A c \in Awaiting : calls'[c].pc = "rejected" /\ calls'[c].err = "busy"
          /\ \A t \in AllClasses : Count(users', t) = Count(users, t)
          /\ ~isRunning'
          /\ procs[startChild].st = "closed" => pipelineConfig' = NullCfg
     /\ \A p \in ProcIds : Closes(p) => (pipelineConfig' = NullCfg /\ ~isRunning')]_vars

\* a retain has just failed with 'device busy' on a process that has exited and
\* not yet closed: nothing is counted, the pipeline is not running, the
\* configuration is still that of the failed start
C25_Witness ==
  \E c \in Callers :
    /\ calls[c].pc = "rejected"
    /\ calls[c].err = "busy"
    /\ ~starting
    /\ procs[startChild].st = "exited"
    /\ Total(users) = 0
    /\ ~isRunning
    /\ pipelineConfig # NullCfg

\* ---------------- implicit stop claims ----------------
\* the close event of subprocess l of job j is handled in this step
ChildCloses(j, l) == children[j][l].st = "exited" /\ children'[j][l].st = "closed"

\* C26: if one subprocess of a running session closes with exit code 0 while stop
\* was not requested, stopRequested is set and a sibling that is still running is
\* sent SIGINT; when the sibling then closes, whatever its exit code, the session
\* ends with status stopped and a null errorMessage
C26_ImplicitStop ==
  [][\A j \in Jobs, l \in Labels :
       /\ ( /\ ChildCloses(j, l)
            /\ session[j].status = "running"
            /\ ~session[j].stopRequested
            /\ children[j][l].code = 0 )
          => /\ session'[j].stopRequested
             /\ children[j][other(l)].st = "alive"
                  => (children'[j][other(l)].killed /\ children'[j][other(l)].sig = "SIGINT")
             /\ other(l) \notin session[j].exits => session'[j].status = "running"
       /\ ( /\ ChildCloses(j, l)
            /\ session[j].status = "running"
            /\ session[j].stopRequested
            /\ children[j][other(l)].st = "closed"
            /\ children[j][other(l)].code = 0 )
          => /\ session'[j].status = "stopped"
             /\ session'[j].errorMessage = NoMsg]_vars

\* record closed with code 0 unasked, inference was sent SIGINT and closed with
\* code 1: the session is stopped with no error message
C26_Witness ==
  \E j \in Jobs :
    /\ children[j]["record"].st = "closed"
    /\ children[j]["record"].code = 0
    /\ ~children[j]["record"].killed
    /\ children[j]["inference"].st = "closed"
    /\ children[j]["inference"].code = 1
    /\ children[j]["inference"].sig = "SIGINT"
    /\ session[j].status = "stopped"
    /\ session[j].stopRequested
    /\ session[j].errorMessage = NoMsg

\* ---------------- spawn error claims ----------------
\* subprocess l of job j emits its spawn error in this step
SpawnErrors(j, l) ==
  /\ children[j][l].st = "alive"
  /\ children'[j][l].st = "exited"
  /\ children'[j][l].code = SpawnErrCode

\* C27: a spawn error of a subprocess of a running session makes the session
\* failed with an errorMessage naming that subprocess, and the sibling is asked to
\* terminate: at the latest when the failed subprocess has closed, a sibling
\* still running has been sent a signal
C27_SpawnErrorPropagates ==
  [][\A j \in Jobs, l \in Labels :
       /\ (SpawnErrors(j, l) /\ session[j].status = "running")
            => /\ session'[j].status = "failed"
               /\ session'[j].errorMessage = [kind |-> "spawn", label |-> l]
       /\ ( /\ ChildCloses(j, l)
            /\ children[j][l].code = SpawnErrCode
            /\ session[j].errorMessage = [kind |-> "spawn", label |-> l]
            /\ children[j][other(l)].st = "alive" )
            => children'[j][other(l)].killed]_vars

\* ---------------- finish lock claims ----------------
\* what a poll found: no frame, a frame already processed, a new frame without a
\* qualifying person, or a new frame with one
pollKind(frame) ==
  IF frame = NullFrame THEN "none"
  ELSE IF frame.t = ar.lastFrameTs THEN "seen"
  ELSE IF findPerson(frame.detections) = NoBox THEN "miss"
  ELSE "person"

\* C28: while recording the miss counter stays below swingEndMissingFrames; a poll
\* with no frame or no qualifying person adds one to it, and the machine leaves
\* recording through finishLocked into the stop sequence exactly when that makes
\* it reach swingEndMissingFrames; a poll with a qualifying person resets it to 0
\* and a poll with an already-processed timestamp leaves it unchanged, both
\* without ending the recording
C28_FinishLock ==
  [][ar.state = "recording" =>
       /\ ar.missingPersonFrames < SwingEndMissingFrames
       /\ \A frame \in Frames \cup {NullFrame} :
            (inFlight' < inFlight /\ FrameArrive(frame)) =>
              CASE pollKind(frame) \in {"none", "miss"} ->
                     IF ar.missingPersonFrames + 1 >= SwingEndMissingFrames
                       THEN \/ ar'.state = "stopping" /\ "stopseq" \in tasks'
                            \/ ar'.state = "idle"
                       ELSE /\ ar'.state = "recording"
                            /\ ar'.missingPersonFrames = ar.missingPersonFrames + 1
                [] pollKind(frame) = "person" ->
                     ar'.state = "recording" /\ ar'.missingPersonFrames = 0
                [] pollKind(frame) = "seen" ->
                     /\ ar'.state = "recording"
                     /\ ar'.missingPersonFrames = ar.missingPersonFrames]_vars

\* a recording is being stopped by the finish lock: the last miss brought the
\* counter to swingEndMissingFrames
C28_Witness ==
  /\ ar.state = "stopping"
  /\ "stopseq" \in tasks
  /\ ar.missingPersonFrames = SwingEndMissingFrames
  /\ isRecording(rec)

\* ----------------------------------------------------------------
\* Claims about the MJPEG stream routes
\* ----------------------------------------------------------------
\* a consumer that was attached and is in neither map any more
Removed(id) == consumers[id].type # "none" /\ ~consumers[id].att

\* cleanup of every consumer any of whose events has fired removed it and released
\* exactly one reference; an attached consumer has released none
CleanedOnce ==
  \A id \in ConsumerIds :
    /\ consumers[id].fired # {} => Removed(id)
    /\ consumers[id].type # "none" => consumers[id].rel = (IF consumers[id].att THEN 0 ELSE 1)

\* the counters follow the maps (between the events of the server, when no
\* continuation of a stream handler is queued)
CountersFollow ==
  /\ Quiet => Count(users, "preview") = Cardinality(attachedOf(consumers, "preview"))
  /\ streamState.active <=> attachedSize(consumers) >= 1
  /\ streamState.clients = attachedSize(consumers)

\* C29 as stated: for each attached preview or AI-preview consumer, whichever of its
\* events fire and in whatever order, the consumer is removed, its process is
\* signalled and release is called exactly once for it; the 'preview' count equals
\* the number of attached preview consumers, streamingActive holds iff at least one
\* consumer is attached, and streamClients is the number attached.
C29_CleanupSignals ==
  /\ CleanedOnce
  /\ \A id \in ConsumerIds : Removed(id) => consumers[id].sig
  /\ CountersFollow

\* C29, amended: as above, but the process of a removed consumer is signalled only if
\* it has no exit code when the consumer is removed; a process that has ended (the
\* 'close' and 'error' events of the process itself) is sent nothing.
C29_CleanupOnce ==
  /\ CleanedOnce
  /\ \A id \in ConsumerIds :
       Removed(id) => (consumers[id].sig \/ consumers[id].proc # "running")
  /\ CountersFollow

\* a removed consumer with one release, three of whose events have fired, the close
\* of its process among them, beside a consumer that is still attached
C29_Witness ==
  \E id, live \in ConsumerIds :
    /\ Removed(id)
    /\ consumers[id].rel = 1
    /\ Cardinality(consumers[id].fired) >= 3
    /\ "preview_close" \in consumers[id].fired
    /\ consumers[live].att

\* what the force-stop leaves behind, but for the signals
StoppedAll ==
  /\ \A id \in ConsumerIds : ~consumers'[id].att
  /\ Count(users', "preview") = 0
  /\ Count(users', "ai-preview") = 0
  /\ ~streamState'.active

\* the later close event of a consumer that is in no map releases no reference
CloseReleasesNothing ==
  \A id \in ConsumerIds :
    (Removed(id) /\ ConsumerClose(id)) =>
      (users' = users /\ consumers'[id].rel = consumers[id].rel)

\* C30 as stated: after POST /api/camera/stream/stop runs no preview or AI-preview
\* consumer is attached, every consumer's process has been signalled, the 'preview'
\* and 'ai-preview' counts are zero, streamingActive is false, and the later close
\* events of the terminated consumers release no further reference.
C30_ForceStopSignalsAll ==
  [][/\ ForceStop =>
        (StoppedAll /\ \A id \in ConsumerIds : consumers[id].att => consumers'[id].sig)
     /\ CloseReleasesNothing]_vars

\* C30, amended: as above, but the force-stop signals the process of a consumer only
\* if it has no exit code; a consumer whose process has exited and not yet closed is
\* removed with nothing sent.
C30_ForceStop ==
  [][/\ ForceStop =>
        (/\ StoppedAll
         /\ \A id \in ConsumerIds :
              consumers[id].att =>
                IF consumers[id].proc = "running"
                  THEN consumers'[id].sig
                  ELSE consumers'[id].sig = consumers[id].sig)
     /\ CloseReleasesNothing]_vars

\* two consumers removed by one force-stop: none of the events of the first has
\* fired, the process of the second was signalled and has closed since, and one
\* reference was released for each
C30_Witness ==
  \E id, late \in ConsumerIds :
    /\ Removed(id) /\ consumers[id].fired = {} /\ consumers[id].rel = 1
    /\ Removed(late) /\ consumers[late].sig /\ consumers[late].rel = 1
    /\ consumers[late].fired = {"preview_close"}
    /\ Count(users, "preview") = 0
    /\ Count(users, "ai-preview") = 0

\* the AI-overlay consumers attached or being set up: the entries of aiPreviewSessions
\* and the stream.ai.mjpeg requests that have passed the route's test
AiActive ==
  Cardinality(attachedOf(consumers, "ai-preview"))
    + Cardinality({c \in Callers : handlers[c].pc = "await" /\ handlers[c].type = "ai-preview"})

\* C31: at most one AI-overlay stream consumer is attached at any time, and no
\* stream.ai.mjpeg request is let through while another AI-overlay consumer is
\* attached or still being set up.
C31_OneAiConsumer ==
  /\ Cardinality(attachedOf(consumers, "ai-preview")) <= 1
  /\ AiActive <= 1

\* the pipeline processes that have not exited
AliveProcs == {p \in ProcIds : procs[p].st = "alive"}

\* C33: at most one shared pipeline process is alive at any time, and whenever one
\* is alive pipelineProc refers to it and isRunning() is true.
C33_OnePipelineTracked ==
  /\ Cardinality(AliveProcs) <= 1
  /\ \A p \in AliveProcs : pipelineProc = p /\ isRunning

\* the state changes of the manager named by its transition table
ValidTransition(from, to) ==
  \/ from \in {"idle", "failed"} /\ to = "arming"
  \/ from = "arming" /\ to = "addressLocked"
  \/ from = "addressLocked" /\ to = "recording"
  \/ from = "recording" /\ to = "finishLocked"
  \/ from \in {"finishLocked", "recording"} /\ to = "stopping"
  \/ from = "stopping" /\ to = "idle"
  \/ from \in ActiveStates /\ to = "idle"
  \/ from \in ActiveStates /\ to = "failed"

\* C40: every state change of AutoRecordManager is one of the transitions of the
\* table; in particular the state leaves idle or failed only for arming, and
\* recording is entered only from addressLocked.
C40_ValidTransitions ==
  [][ar'.state # ar.state => ValidTransition(ar.state, ar'.state)]_vars

\* C38: after stopSession has called terminateProcess on a running subprocess, the
\* call settles (so stopSession goes on to the terminal status and returns), even if
\* the subprocess ignores SIGINT and SIGTERM, given that SIGKILL ends a process and
\* timers fire.
C38_StopReturns ==
  \A l \in TermLabels : (tcall[l].pc = "waiting") ~> (tcall[l].pc = "resolved")

\* C39: in every configuration, pauseDetectorDuringRecording = true included, once
\* the machine is in recording and the subject stays absent, the machine leaves
\* recording and returns to idle without an external stop() call, poll ticks being
\* scheduled fairly.
C39_RecordingEnds == (ar.state = "recording") ~> (ar.state = "idle")

\* C34: when startRecording throws after acquireLock returned true, the camera lock
\* is released and the busy flag cleared, so that isBusy() becomes false and a later
\* tryAcquireLock or startRecording is not blocked by the failed attempt.
C34_StartRecordingReleases ==
  [][\A k \in CamLockers :
       RecorderStartThrows(k) =>
         /\ ~busy'
         /\ ~lockFile'.exists \/ lockers'[k].pc = "releasing"]_vars

\* the 'auto-record' references the detector holds: retained is set by its start()
\* just before the spawn and cleared by its stop() together with proc
DetectorRefs == IF detRunning THEN 1 ELSE 0

\* C35: whenever AutoRecordManager is inactive (idle or failed) and no start() or
\* stop() is in progress, the detector subprocess is stopped and the 'auto-record'
\* pipeline reference count is 0.
C35_DetectorBalance ==
  (ar.state \in {"idle", "failed"} /\ tasks \cap {"start", "userstop"} = {})
    => (~detRunning /\ DetectorRefs = 0)

SpecSessionFiles == Init /\ [][FileNext]_vars

\* startSession has thrown after it acquired the session lock
StartThrew == pm.pc = "threw"

\* C36: when startSession throws after acquiring the session lock, the lock file is
\* removed, the 'session' reference was released exactly once if and only if it had
\* been retained, currentSession is null and no subprocess of the session is running.
C36_NoResidue ==
  StartThrew =>
    /\ ~pm.lockFile
    /\ pm.releases = (IF pm.retained THEN 1 ELSE 0)
    /\ ~pm.currentSession
    /\ \A l \in Labels : pm.kids[l] # "alive"

\* startSession is over and nothing is being written to the state record
WritesSettled == pm.pc \in {"returned", "threw"} /\ pm.writes = {}

\* C37: when every state write succeeds, then once the writes of startSession and
\* finishSession are done, the state record says running only if the job is the
\* running session in memory, and getStatus does not report running for a session
\* that is stopped or failed or whose startSession failed.
C37_PersistedAgrees ==
  (WritesSettled /\ ~pm.writeFailed) =>
    /\ pm.stateFile = "running" => (pm.currentSession /\ pm.status = "running")
    /\ (StartThrew \/ pm.status \in {"stopped", "failed"}) => getStatus # "running"

\* finishSession ran once startSession had rewritten the lock, and each of its
\* side effects has settled
FinishSettled ==
  /\ pm.finPc \in {"writeState2", "returned"}
  /\ pm.pc \in {"returned", "threw"}
  /\ ~pm.unlink /\ ~pm.rename /\ ~pm.callback
  /\ \A w \in pm.writes : w.by # "finish"

====
